---- MODULE Spec2Model ----
(***************************************************************************)
(* Forum archiver (scraper.py): the progress ledger, the section/thread    *)
(* loop of ForumScraper.run, listing discovery, thread saving and image    *)
(* embedding, as state machines.                                           *)
(*                                                                         *)
(* A URL is the record of the query parameters the code reads from it:     *)
(*   f    the forum (section) id, None when the URL has no f parameter     *)
(*   t    the thread id, None when the URL has no t parameter              *)
(*   st   the list parse_qs gives for the st parameter: << >> or <<n>>     *)
(*   skip whether the URL contains one of SKIP_PATTERNS                    *)
(* A rendered page is the sequence of its <a href> links in document       *)
(* order, each already normalised (normalize_url) and inside the forum's   *)
(* domain.                                                                 *)
(***************************************************************************)
EXTENDS Integers, Sequences, FiniteSets, TLC

\* ---------------------------------------------------------------- bounds
NumSections == 2
NumThreads == 2
MaxRuns == 2
\* listing discovery on arbitrary listing pages
DiscThreads == 4
MaxLinks == 4
\* save_thread on arbitrary thread pages: the highest pagination offset
MaxOffset == 61
\* image embedding: img elements of a page, longest payload
MaxImgs == 2
MaxBody == 103
MaxAdds == 4

\* ------------------------------------------------------ program constants
PageSize == 30
SaveEvery == 5
\* the payload length the two capture tiers compare with
TinyBody == 100

None == 0
Sections == 1..NumSections
Tids == 1..NumThreads

Url(f, t, st, skip) == [f |-> f, t |-> t, st |-> st, skip |-> skip]
NoUrl == Url(None, None, <<>>, TRUE)

Range(s) == {s[i] : i \in 1..Len(s)}

\* ------------------------------------------------------------ URL helpers
should_skip(url) == url.skip

get_thread_id(url) == url.t

get_forum_id(url) == url.f

\* mutant: the deny-list is not consulted
is_thread_url_any(url) == get_thread_id(url) # None

is_thread_url(url) == get_thread_id(url) # None /\ ~should_skip(url)

\* f"https://{BASE_DOMAIN}/?t={tid}"
BaseThread(tid) == Url(None, tid, <<>>, FALSE)

\* a.get_text(strip=True) or f"Thread {tid}": link texts are not modelled,
\* the title is the default one
TitleOf(tid) == <<"Thread", tid>>

SectionUrl(s) == Url(s, None, <<>>, FALSE)

\* int(parse_qs(urlparse(page_url).query).get("st", [0])[0])
CurrentSt(url) == IF url.st = <<>> THEN 0 ELSE url.st[1]

\* ------------------------------------------------------- discover_threads
\* mutant: no key is ever found in the dict
HasKeyNever(threads, key) == FALSE

\* `threads` is the OrderedDict url -> title, as the sequence of its items
HasKey(threads, key) == \E i \in 1..Len(threads) : threads[i][1] = key

RECURSIVE CollectThreads(_, _, _)
CollectThreads(threads, doc, i) ==
  IF i > Len(doc) THEN threads
  ELSE LET href == doc[i] IN
       IF ~is_thread_url(href) THEN CollectThreads(threads, doc, i + 1)
       ELSE LET tid == get_thread_id(href)
                base_thread == BaseThread(tid)
            IN IF HasKey(threads, base_thread)
               THEN CollectThreads(threads, doc, i + 1)
               ELSE CollectThreads(Append(threads, <<base_thread, TitleOf(tid)>>),
                                   doc, i + 1)

\* mutant: a higher offset of any section qualifies
QualifiesAsNextAnySection(href, forum_id, current_st) ==
  /\ href.st # <<>>
  /\ href.st[1] > current_st

\* mutant: an offset that is not below the current one qualifies
QualifiesAsNextNotBelow(href, forum_id, current_st) ==
  /\ href.f = forum_id
  /\ href.st # <<>>
  /\ href.st[1] >= current_st

\* lines 592-595: same f as the section root, an st, and st > current_st
QualifiesAsNext(href, forum_id, current_st) ==
  /\ href.f = forum_id
  /\ href.st # <<>>
  /\ href.st[1] > current_st

RECURSIVE FindNext(_, _, _, _)
FindNext(doc, forum_id, current_st, i) ==
  IF i > Len(doc) THEN NoUrl
  ELSE IF QualifiesAsNext(doc[i], forum_id, current_st) THEN doc[i]
       ELSE FindNext(doc, forum_id, current_st, i + 1)

\* -------------------------------------------------------------- the ledger
EmptyLedger == [s \in {} |-> 0]

NewSectionState == [threads_found |-> <<>>, threads_done |-> <<>>,
                    thread_pages_done |-> <<>>]

\* mutant: the record is created anew on every call
section_state_fresh(st, name) ==
  [s \in DOMAIN st \cup {name} |-> IF s = name THEN NewSectionState ELSE st[s]]

section_state(st, name) ==
  IF name \in DOMAIN st THEN st ELSE st @@ (name :> NewSectionState)

\* threads_found is the flat list url, title, url, title, ...
RECURSIVE Flatten(_)
Flatten(threads) ==
  IF threads = <<>> THEN <<>>
  ELSE <<threads[1][1], threads[1][2]>> \o Flatten(Tail(threads))

\* list(zip(found[::2], found[1::2]))
Unflatten(found) ==
  [i \in 1..(Len(found) \div 2) |-> <<found[2 * i - 1], found[2 * i]>>]

\* ------------------------------------------------- discover_thread_pages
\* mutant: links to pages of any thread are taken
RECURSIVE CollectPagesAnyThread(_, _, _, _)
CollectPagesAnyThread(pages, doc, tid, i) ==
  IF i > Len(doc) THEN pages
  ELSE LET href == doc[i] IN
       IF href.st # <<>>
       THEN CollectPagesAnyThread([o \in DOMAIN pages \cup {href.st[1]} |->
                                     IF o = href.st[1] THEN href ELSE pages[o]],
                                  doc, tid, i + 1)
       ELSE CollectPagesAnyThread(pages, doc, tid, i + 1)

\* pages = {0: thread_url}; pages[st] = href for each link of the thread
RECURSIVE CollectPages(_, _, _, _)
CollectPages(pages, doc, tid, i) ==
  IF i > Len(doc) THEN pages
  ELSE LET href == doc[i] IN
       IF href.t = tid /\ href.st # <<>>
       THEN CollectPages([o \in DOMAIN pages \cup {href.st[1]} |->
                            IF o = href.st[1] THEN href ELSE pages[o]],
                         doc, tid, i + 1)
       ELSE CollectPages(pages, doc, tid, i + 1)

\* sorted(pages.items(), key=lambda x: x[0])
RECURSIVE SortedItems(_)
SortedItems(pages) ==
  IF DOMAIN pages = {} THEN <<>>
  ELSE LET lo == CHOOSE o \in DOMAIN pages : \A q \in DOMAIN pages : o <= q
       IN <<<<lo, pages[lo]>>>> \o
          SortedItems([o \in DOMAIN pages \ {lo} |-> pages[o]])

discover_thread_pages(thread_url, doc) ==
  SortedItems(CollectPages([o \in {0} |-> thread_url], doc,
                           get_thread_id(thread_url), 1))

\* mutant: the page number is the quotient alone
PgNumQuotient(st_val) == IF st_val > 0 THEN st_val \div PageSize ELSE 1

\* pg_num = (st_val // 30) + 1 if st_val > 0 else 1
PgNum(st_val) == IF st_val > 0 THEN (st_val \div PageSize) + 1 ELSE 1

\* thread_filepath / page_filepath: the flat file of a thread is page 0 here
FlatPath(s, tid) == [sec |-> s, tid |-> tid, pg |-> 0]
PagePath(s, tid, pg_num) == [sec |-> s, tid |-> tid, pg |-> pg_num]

\* os.path.exists(fpath) and os.path.getsize(fpath) > 200: a file whose write
\* completed holds a whole rendered page ("full"); a file opened for writing
\* and not yet written is empty ("partial")
ExistsBig(fs, fpath) == fpath \in DOMAIN fs /\ fs[fpath] = "full"

\* ------------------------------------------------------------ the source
\* A forum gives the document each URL serves when its render succeeds; a URL
\* it does not name serves a page without links.
ThreadLink(t) == BaseThread(t)
NextLink(s, o) == Url(s, None, <<o>>, FALSE)
PageLink(t, o) == Url(None, t, <<o>>, FALSE)

Succ(t) == (t % NumThreads) + 1

\* the sections that hold threads; a further section is empty
Stocked == {1, 2}

\* every stocked section lists its own thread and a next-link on its first
\* page, and the following thread, then its own again, on the page at offset
\* 30; a thread with an odd id has one page, one with an even id has the
\* pages at offsets 0, 30 and 59
PagedForum ==
  [u \in {SectionUrl(s) : s \in Sections} \cup {NextLink(s, 30) : s \in Sections}
         \cup {ThreadLink(t) : t \in Tids} |->
     IF u.t # None
     THEN IF u.t % 2 = 1 THEN <<>> ELSE <<PageLink(u.t, 30), PageLink(u.t, 59)>>
     ELSE IF u.st = <<>>
          THEN IF u.f \in Stocked
               THEN <<ThreadLink(u.f), NextLink(u.f, 30)>> ELSE <<>>
          ELSE IF u.f \in Stocked
               THEN <<ThreadLink(Succ(u.f)), ThreadLink(u.f)>> ELSE <<>>]

\* the first section lists every thread on one page, highest id first, and
\* the other stocked section lists the last thread only; thread 1 has the pages at
\* offsets 0 and 30, and every other thread has one page, which links to
\* that second page of thread 1
FlatForum ==
  [u \in {SectionUrl(s) : s \in Sections} \cup {ThreadLink(t) : t \in Tids} |->
     IF u.t # None
     THEN <<PageLink(1, 30)>>
     ELSE IF u.f = 1
          THEN [i \in 1..NumThreads |-> ThreadLink(NumThreads + 1 - i)]
          ELSE IF u.f \in Stocked THEN <<ThreadLink(NumThreads)>> ELSE <<>>]

\* bad: the URLs whose document ends with one more link, to a listing page
\* of the same section or to a page of the same thread, whose st parameter
\* is not a number
Fixed(docs) == [any |-> FALSE, nav |-> FALSE, docs |-> docs, bad |-> {}]

\* FlatForum with such a link on the page of the last thread and on the
\* listing page of the second section
BrokenForum ==
  [any |-> FALSE, nav |-> FALSE, docs |-> FlatForum,
   bad |-> {ThreadLink(NumThreads), SectionUrl(NumSections)}]

Forums == {Fixed(PagedForum), Fixed(FlatForum), BrokenForum}

\* the source of a discovery taken alone: any listing page may be served
AnySource == [any |-> TRUE, nav |-> FALSE, docs |-> <<>>, bad |-> {}]

\* the source of a discovery on pagination links: any page of such links
NavSource == [any |-> TRUE, nav |-> TRUE, docs |-> <<>>, bad |-> {}]

SeqsUpTo(S, n) == UNION {[1..k -> S] : k \in 0..n}

\* links of a listing page of section s: to threads, to listing offsets of
\* the section, and to a listing offset of another section
ListingLinks(s) ==
  {ThreadLink(t) : t \in 1..DiscThreads}
  \cup {NextLink(s, 30), NextLink(s, 60), NextLink(s + 1, 60)}

ListingDocs(s) == SeqsUpTo(ListingLinks(s), MaxLinks)

\* a link with the thread-id parameter and a deny-list signature, such as
\* "?act=Print&t=2"
DeniedLink(t) == Url(None, t, <<>>, TRUE)

\* links of a listing page that is mostly pagination: to one thread, to
\* another thread by a denied link only, to listing offsets of the section,
\* and to a listing offset of another section
NavLinks(s) ==
  {ThreadLink(1), DeniedLink(2), NextLink(s, 30), NextLink(s, 60),
   NextLink(s + 1, 60)}

NavDocs(s) == SeqsUpTo(NavLinks(s), MaxLinks)

\* the documents a successful render of a listing URL of section s may return
Rendering(fm, s, url) ==
  IF fm.any THEN IF fm.nav THEN NavDocs(s) ELSE ListingDocs(s)
  ELSE {IF url \in DOMAIN fm.docs THEN fm.docs[url] ELSE <<>>}

\* the document of a thread's first page
ThreadDoc(fm, url) ==
  IF ~fm.any /\ url \in DOMAIN fm.docs THEN fm.docs[url] ELSE <<>>

\* ------------------------------------------------------- images: strings
\* An attribute value, and any URL string, is the record of what the code
\* reads of it: kind "http" (starts with "http"; u is the image addressed,
\* frag whether a #fragment follows), "data" (starts with "data:"; text is the
\* string, a sequence of tokens), "other" (any other non-empty string), or
\* "absent" (the element has no such attribute).
AttrVal(kind, u, frag, text) ==
  [kind |-> kind, u |-> u, frag |-> frag, text |-> text]
HttpVal(u, frag) == AttrVal("http", u, frag, <<>>)
DataVal(text) == AttrVal("data", 0, FALSE, text)
OtherVal == AttrVal("other", 0, FALSE, <<>>)
Absent == AttrVal("absent", 0, FALSE, <<>>)

\* the images addressed: one served as a .jpg file, one by a script
ImageUrls == {1, 2}

\* normalize_url on an absolute URL: the fragment is dropped
NormalizeImg(val) == HttpVal(val.u, FALSE)

\* os.path.splitext(urlparse(url).path)[1].lower()
ExtOf(url) == IF url.u = 1 THEN ".jpg" ELSE ""

IMAGE_EXTENSIONS ==
  {".png", ".jpg", ".jpeg", ".gif", ".svg", ".webp", ".ico", ".bmp", ".tiff",
   ".tif", ".avif"}

IMAGE_MIMES ==
  {"image/png", "image/jpeg", "image/gif", "image/svg+xml", "image/webp",
   "image/x-icon", "image/bmp", "image/avif", "image/tiff"}

is_image_url(url) == ExtOf(url) \in IMAGE_EXTENSIONS

\* mime_map.get(ext, "image/png"), for the extensions ExtOf gives
MimeOfExt(ext) == IF ext = ".jpg" THEN "image/jpeg" ELSE "image/png"

\* ct.split(";")[0].strip().lower()
MediaType(ct) == IF ct = "text/html; charset=utf-8" THEN "text/html" ELSE ct

\* "text/html" in ct.lower()
MentionsHtml(ct) == ct \in {"text/html", "text/html; charset=utf-8"}

\* content_type is the Content-Type header; "" for none
guess_mime(url, content_type) ==
  IF content_type # "" /\ MediaType(content_type) \in IMAGE_MIMES
  THEN MediaType(content_type)
  ELSE MimeOfExt(ExtOf(url))

\* ------------------------------------------------------- images: base64
B64Alphabet ==
  <<"A", "B", "C", "D", "E", "F", "G", "H", "I", "J", "K", "L", "M",
    "N", "O", "P", "Q", "R", "S", "T", "U", "V", "W", "X", "Y", "Z",
    "a", "b", "c", "d", "e", "f", "g", "h", "i", "j", "k", "l", "m",
    "n", "o", "p", "q", "r", "s", "t", "u", "v", "w", "x", "y", "z",
    "0", "1", "2", "3", "4", "5", "6", "7", "8", "9", "+", "/">>

\* mutant: only the whole 3-byte groups are encoded
b64encode_whole_groups(data) ==
  [k \in 1..(4 * (Len(data) \div 3)) |->
     LET g == (k - 1) \div 4
         j == (k - 1) % 4
         b1 == data[3 * g + 1]
         b2 == data[3 * g + 2]
         b3 == data[3 * g + 3]
     IN IF j = 0 THEN B64Alphabet[(b1 \div 4) + 1]
        ELSE IF j = 1 THEN B64Alphabet[(b1 % 4) * 16 + (b2 \div 16) + 1]
        ELSE IF j = 2 THEN B64Alphabet[(b2 % 16) * 4 + (b3 \div 64) + 1]
        ELSE B64Alphabet[(b3 % 64) + 1]]

\* base64.b64encode(data).decode("ascii"): every 3 bytes give 4 characters
\* of 6 bits each; a last group of 1 or 2 bytes is filled with zero bits and
\* its missing characters are "="
b64encode(data) ==
  LET n == Len(data)
      byte(i) == IF i <= n THEN data[i] ELSE 0
  IN [k \in 1..(4 * ((n + 2) \div 3)) |->
        LET g == (k - 1) \div 4
            j == (k - 1) % 4
            b1 == byte(3 * g + 1)
            b2 == byte(3 * g + 2)
            b3 == byte(3 * g + 3)
        IN IF j = 0 THEN B64Alphabet[(b1 \div 4) + 1]
           ELSE IF j = 1 THEN B64Alphabet[(b1 % 4) * 16 + (b2 \div 16) + 1]
           ELSE IF j = 2
                THEN IF 3 * g + 2 > n THEN "="
                     ELSE B64Alphabet[(b2 % 16) * 4 + (b3 \div 64) + 1]
                ELSE IF 3 * g + 3 > n THEN "="
                     ELSE B64Alphabet[(b3 % 64) + 1]]

\* f"data:{mime};base64,{b64}"
DataUri(mime, data) == <<"data:", mime, ";base64,">> \o b64encode(data)

\* -------------------------------------------------------- images: the cache
\* ImageCache._cache: url -> (mime_type, raw_bytes)
EmptyCache == [k \in {} |-> <<>>]

CachePut(c, url, mime_type, data) ==
  [k \in DOMAIN c \cup {url} |-> IF k = url THEN <<mime_type, data>> ELSE c[k]]

\* None is the empty string here: both are false for `if not data_uri`
get_data_uri(c, url) ==
  IF url \notin DOMAIN c THEN <<>>
  ELSE DataUri(c[url][1], c[url][2])

\* payloads: empty, of TinyBody bytes, and of the three highest lengths
BodyLens == {0, TinyBody} \cup (MaxBody - 2)..MaxBody
Body(n) == [i \in 1..n |-> (37 * i + n) % 256]
Bodies == {Body(n) : n \in BodyLens}

\* the media types of the responses
ContentTypes == {"image/gif", "text/html", "text/html; charset=utf-8", ""}

\* the responses the browser may see while a page loads
Tier1Responses ==
  [url : {HttpVal(u, FALSE) : u \in ImageUrls}, ct : ContentTypes,
   body : Bodies, readable : BOOLEAN]

\* _on_response: the cache after the handler ran on a response
on_response(c, response) ==
  LET url == response.url
      mime == MediaType(response.ct)
  IN IF mime \in IMAGE_MIMES \/ is_image_url(url)
     THEN IF ~response.readable THEN c
          ELSE IF Len(response.body) > TinyBody
               THEN CachePut(c, url,
                             IF mime \notin IMAGE_MIMES
                             THEN guess_mime(url, "") ELSE mime,
                             response.body)
               ELSE c
     ELSE c

\* _on_response reaches self._image_cache.put for the response
Cached(response) ==
  /\ MediaType(response.ct) \in IMAGE_MIMES \/ is_image_url(response.url)
  /\ response.readable
  /\ Len(response.body) > TinyBody

\* the answers a fallback request may get; ok is FALSE when the request
\* raises or the status is an error
Tier2Responses == [ok : BOOLEAN, ct : ContentTypes, data : Bodies]

\* mutant: an HTML answer is taken as an image
download_image_requests_any_type(url, resp) ==
  IF ~resp.ok THEN <<>>
  ELSE IF Len(resp.data) < TinyBody THEN <<>>
  ELSE <<guess_mime(url, resp.ct), resp.data>>

\* mutant: the answer of a request that raised or got an error status is
\* taken
download_image_requests_unchecked(url, resp) ==
  IF MentionsHtml(resp.ct) THEN <<>>
  ELSE IF Len(resp.data) < TinyBody THEN <<>>
  ELSE <<guess_mime(url, resp.ct), resp.data>>

\* _download_image_requests: (mime, bytes), or None as << >>
download_image_requests(url, resp) ==
  IF ~resp.ok THEN <<>>
  ELSE IF MentionsHtml(resp.ct) THEN <<>>
  ELSE IF Len(resp.data) < TinyBody THEN <<>>
  ELSE <<guess_mime(url, resp.ct), resp.data>>

\* ----------------------------------------------------- images: img elements
SrcAttrs ==
  <<"src", "data-src", "data-lazy-src", "data-original", "data-url",
    "data-image">>

LazyAttrs ==
  {"data-src", "data-lazy-src", "data-original", "data-url", "data-image",
   "srcset", "loading"}

ImgAttrs == Range(SrcAttrs) \cup LazyAttrs

Img(attrs) == [a \in ImgAttrs |-> IF a \in DOMAIN attrs THEN attrs[a] ELSE Absent]

\* lines 379-385: the first of SrcAttrs whose value starts with "http"
RECURSIVE FirstHttp(_, _)
FirstHttp(img, i) ==
  IF i > Len(SrcAttrs) THEN Absent
  ELSE IF img[SrcAttrs[i]].kind = "http" THEN img[SrcAttrs[i]]
       ELSE FirstHttp(img, i + 1)

SrcOf(img) == FirstHttp(img, 1)

\* mutant: src is set and the lazy-load attributes are kept
InlinedKeepLazy(img, data_uri) ==
  [a \in ImgAttrs |-> IF a = "src" THEN DataVal(data_uri) ELSE img[a]]

\* lines 414-419: src is set and the lazy-load attributes are deleted
Inlined(img, data_uri) ==
  [a \in ImgAttrs |-> IF a = "src" THEN DataVal(data_uri)
                      ELSE IF a \in LazyAttrs THEN Absent
                      ELSE img[a]]

\* a small image inlined in the markup as served
Spacer == DataUri("image/gif", <<71, 73, 70>>)

\* the img elements of the pages: a plain image of either address; one
\* addressed with a fragment and carrying srcset and loading; a lazy one
\* with a placeholder src; one that is a data URI and kept its
\* data-original; one that is a data URI only
ImgElems ==
  {Img("src" :> HttpVal(1, FALSE)),
   Img("src" :> HttpVal(2, FALSE)),
   Img("src" :> HttpVal(1, TRUE) @@ "srcset" :> OtherVal
       @@ "loading" :> OtherVal),
   Img("src" :> OtherVal @@ "data-src" :> HttpVal(2, FALSE)),
   Img("src" :> DataVal(Spacer) @@ "data-original" :> HttpVal(1, FALSE)),
   Img("src" :> DataVal(Spacer))}

ImgPages == SeqsUpTo(ImgElems, MaxImgs)

\* ------------------------------------------------------------------ state
VARIABLES
  forum,        \* the source, fixed
  state,        \* self.state: the in-memory ledger, section -> record
  disk,         \* the content of .scraper_state.json
  files,        \* the archive: path -> "partial" | "full"
  browser,      \* "none" | "on" | "closed"
  pc,           \* where run() is
  how,          \* how the try block of run() was left
  runs,         \* runs started so far
  sec,          \* run(): index of the section being processed
  threads,      \* run(): the (url, title) pairs of the section
  done_set,     \* run(): set(ss["threads_done"]) taken before the thread loop
  done,         \* run(): the progress counter
  t_idx,        \* run(): position in threads
  d_threads,    \* discover_threads(): the OrderedDict threads
  page_url,     \* discover_threads(): the listing URL to render next
  d_html,       \* discover_threads(): the links of the page just rendered
  found_new,    \* discover_threads(): found_new
  next_url,     \* discover_threads(): next_url, NoUrl for None
  thread_pages, \* save_thread(): sorted (st_val, pg_url) pairs
  pg_idx,       \* save_thread(): position in thread_pages
  saved,        \* save_thread(): the counter returned
  d_before,     \* history: threads before the page just rendered was scanned
  rendered,     \* history: the listing offsets rendered by this discovery
  start,        \* history: the ledger loaded when the current run started
  prevHow,      \* history: how the previous run ended ("none" for the first)
  written,      \* history: the paths written by the current run
  processed,    \* history: per section, the threads save_thread was called on
  listed,       \* history: the sections a listing page was rendered for
  delayed,      \* history: time.sleep(self.delay) ended the last fetch_page
  cache,        \* self._image_cache._cache: url -> (mime, bytes)
  page,         \* the img elements of page.content(), as loaded
  imgs,         \* _embed_images_in_html(): the img elements of soup
  e_idx,        \* _embed_images_in_html(): position in img_tags
  styles,       \* _embed_images_in_html(): the url() of each style attribute
  s_idx,        \* _embed_images_in_html(): index of the style tag visited
  fetches,      \* history: the fallback requests: URL, whether answered, type
  pass,         \* history: how many times the embedding step was applied
  stale,        \* history: the cache keys put by a response of an earlier page
  lock,         \* self._image_cache._lock: its holder, "free" for none
  cs,           \* per caller: the ImageCache method it is in, and how far
  index,        \* VideoIndex.data: the entries in insertion order
  index_file,   \* the content of video_index.json
  opts,         \* main(): args
  y_sec,        \* main(): position in the sections scanned or downloaded
  v_idx,        \* main(): position in vids_in_sec
  loaded,       \* history: the index before the calls made on it
  last_call,    \* history: this run's last call of download, the status before
  reg           \* history: the add_video calls made

store == <<state, disk, files, browser>>
ctl == <<pc, how, runs, sec>>
runLocals == <<threads, done_set, done, t_idx>>
discLocals == <<d_threads, page_url, d_html, found_new, next_url, d_before,
                rendered>>
saveLocals == <<thread_pages, pg_idx, saved>>
history == <<start, prevHow, written, processed, listed, delayed>>
embedLocals == <<cache, page, imgs, e_idx, styles, s_idx, fetches, pass, stale>>
lockLocals == <<lock, cs>>
indexLocals == <<index, index_file, opts, y_sec, v_idx, loaded, last_call,
                 reg>>

vars == <<forum, store, ctl, runLocals, discLocals, saveLocals, history,
          embedLocals, lockLocals, indexLocals>>

NoDiscLocals ==
  /\ d_threads = <<>> /\ page_url = NoUrl /\ d_html = <<>>
  /\ found_new = FALSE /\ next_url = NoUrl /\ d_before = <<>>
  /\ rendered = <<>>

NoEmbedLocals ==
  /\ cache = EmptyCache /\ page = <<>> /\ imgs = <<>> /\ e_idx = 1
  /\ styles = <<>> /\ s_idx = 1
  /\ fetches = <<>> /\ pass = 0 /\ stale = {}

\* the callers of the cache: the main flow and the response callback
Callers == {"main", "callback"}

\* no caller is in a method of the cache
Outside == [method |-> "none", at |-> "out", url |-> 1, data |-> <<>>]

NoLockLocals ==
  /\ lock = "free"
  /\ cs = [t \in Callers |-> Outside]

\* args before they are parsed, and no call of download yet
NoOpts == [retry_failed |-> FALSE, scan_only |-> FALSE, max_per_section |-> 0]
NoCall == [id |-> "", was |-> ""]

NoIndexLocals ==
  /\ index = <<>> /\ index_file = <<>> /\ opts = NoOpts
  /\ y_sec = 1 /\ v_idx = 1
  /\ loaded = <<>> /\ last_call = NoCall /\ reg = <<>>

InitRun ==
  /\ forum \in Forums
  /\ state = EmptyLedger
  /\ disk = EmptyLedger
  /\ files = [p \in {} |-> "full"]
  /\ browser = "none"
  /\ pc = "idle"
  /\ how = "none"
  /\ runs = 0
  /\ sec = 1
  /\ threads = <<>> /\ done_set = {} /\ done = 0 /\ t_idx = 1
  /\ NoDiscLocals
  /\ thread_pages = <<>> /\ pg_idx = 1 /\ saved = 0
  /\ start = EmptyLedger
  /\ prevHow = "none"
  /\ delayed = TRUE
  /\ written = {}
  /\ processed = [s \in Sections |-> <<>>]
  /\ listed = {}
  /\ NoEmbedLocals
  /\ NoLockLocals
  /\ NoIndexLocals

\* ---------------------------------------------------------------- run()
\* lines 682-684: load_state, start_browser (a new process: self.state = {})
RunStart ==
  /\ pc = "idle"
  /\ runs < MaxRuns
  /\ runs' = runs + 1
  /\ state' = disk
  /\ browser' = "on"
  /\ pc' = "section"
  /\ how' = "normal"
  /\ start' = disk
  /\ prevHow' = how
  /\ written' = {}
  /\ processed' = [s \in Sections |-> <<>>]
  /\ listed' = {}
  /\ delayed' = TRUE
  /\ UNCHANGED <<forum, indexLocals, lockLocals, embedLocals, disk, files, sec,
                 runLocals, discLocals, saveLocals>>

\* the for loop over section_list moves on, or ends (the try block is left)
NextSection ==
  IF sec = NumSections
  THEN pc' = "finally" /\ sec' = sec
  ELSE pc' = "section" /\ sec' = sec + 1

\* mutant: the cached list is never used
UseCachedNever(ss) == FALSE

\* if ss["threads_found"]: (line 699)
UseCached(ss) == ss.threads_found # <<>>

\* mutant: the completed threads are forgotten
DoneSetEmpty(ss) == {}

\* done_set = set(ss["threads_done"]) (line 714)
DoneSet(ss) == Range(ss.threads_done)

\* lines 688-703 and 713-722, the cached branch; 704-706, the start of discovery
SectionBegin ==
  /\ pc = "section"
  /\ LET st1 == section_state(state, sec)
         ss == st1[sec]
     IN /\ state' = st1
        /\ IF UseCached(ss)
           THEN /\ threads' = Unflatten(ss.threads_found)
                /\ done_set' = DoneSet(ss)
                /\ done' = Cardinality(DoneSet(ss))
                /\ t_idx' = 1
                /\ pc' = "threads"
                /\ UNCHANGED discLocals
           ELSE /\ d_threads' = <<>>
                /\ page_url' = SectionUrl(sec)
                /\ pc' = "discover"
                /\ UNCHANGED <<runLocals, d_html, found_new, next_url, d_before,
                               rendered>>
  /\ UNCHANGED <<forum, indexLocals, lockLocals, embedLocals, disk, files,
                 browser, how, runs, sec, saveLocals, history>>

\* ------------------------------------------------------ discover_threads()
\* mutant: a failed listing render throws away what was collected
DiscoverFetchFailDropsAll ==
  /\ pc = "discover"
  /\ rendered' = Append(rendered, CurrentSt(page_url))
  /\ listed' = listed \cup {sec}
  /\ delayed' = FALSE
  /\ pc' = "discovered"
  /\ d_threads' = <<>>
  /\ UNCHANGED <<forum, indexLocals, lockLocals, embedLocals, store, how, runs,
                 sec, runLocals, page_url, d_html, found_new, next_url,
                 d_before, saveLocals, start, prevHow, written, processed>>

\* lines 565-570: the listing render fails (fetch_page returns None): break
DiscoverFetchFail ==
  /\ pc = "discover"
  /\ rendered' = Append(rendered, CurrentSt(page_url))
  /\ listed' = listed \cup {sec}
  /\ delayed' = FALSE
  /\ pc' = "discovered"
  /\ UNCHANGED <<forum, indexLocals, lockLocals, embedLocals, store, how, runs,
                 sec, runLocals, d_threads, page_url, d_html, found_new,
                 next_url, d_before, saveLocals, start, prevHow, written,
                 processed>>

\* lines 565-572: the listing page at page_url is rendered and parsed
DiscoverFetch ==
  /\ pc = "discover"
  /\ \E doc \in Rendering(forum, sec, page_url) : d_html' = doc
  /\ rendered' = Append(rendered, CurrentSt(page_url))
  /\ listed' = listed \cup {sec}
  /\ delayed' = TRUE
  /\ pc' = "scan"
  /\ UNCHANGED <<forum, indexLocals, lockLocals, embedLocals, store, how, runs,
                 sec, runLocals, d_threads, page_url, found_new, next_url,
                 d_before, saveLocals, start, prevHow, written, processed>>

\* line 593: int(qs["st"][0]) raises ValueError: the loop for the next
\* listing page meets the malformed link, the last one, when no link before
\* it qualifies
ScanRaises ==
  /\ page_url \in forum.bad
  /\ FindNext(d_html, get_forum_id(SectionUrl(sec)), CurrentSt(page_url), 1)
       = NoUrl

\* lines 573-597: the thread links are collected and the next listing page
\* is looked for
DiscoverScan ==
  /\ pc = "scan"
  /\ ~ScanRaises
  /\ d_before' = d_threads
  /\ d_threads' = CollectThreads(d_threads, d_html, 1)
  /\ found_new' = (Len(d_threads') > Len(d_threads))
  /\ next_url' = FindNext(d_html, get_forum_id(SectionUrl(sec)),
                          CurrentSt(page_url), 1)
  /\ pc' = "decide"
  /\ UNCHANGED <<forum, indexLocals, lockLocals, embedLocals, store, how, runs,
                 sec, runLocals, page_url, d_html, rendered, saveLocals,
                 history>>

\* mutant: a page without new thread ends discovery
DiscoverDecideNothingNew ==
  /\ pc = "decide"
  /\ IF ~found_new \/ next_url = NoUrl
     THEN pc' = "discovered" /\ page_url' = page_url
     ELSE pc' = "discover" /\ page_url' = next_url
  /\ d_html' = <<>>
  /\ found_new' = FALSE
  /\ next_url' = NoUrl
  /\ d_before' = <<>>
  /\ UNCHANGED <<forum, indexLocals, lockLocals, embedLocals, store, how, runs,
                 sec, runLocals, d_threads, rendered, saveLocals, history>>

\* lines 599-604: go to the next listing page, or leave the loop
DiscoverDecide ==
  /\ pc = "decide"
  /\ IF ~found_new /\ next_url = NoUrl
     THEN pc' = "discovered" /\ page_url' = page_url
     ELSE IF next_url # NoUrl
          THEN pc' = "discover" /\ page_url' = next_url
          ELSE pc' = "discovered" /\ page_url' = page_url
  /\ d_html' = <<>>
  /\ found_new' = FALSE
  /\ next_url' = NoUrl
  /\ d_before' = <<>>
  /\ UNCHANGED <<forum, indexLocals, lockLocals, embedLocals, store, how, runs,
                 sec, runLocals, d_threads, rendered, saveLocals, history>>

\* lines 606 and 706-722: the result is stored and the ledger saved
DiscoverDone ==
  /\ pc = "discovered"
  /\ state' = [state EXCEPT ![sec].threads_found = Flatten(d_threads)]
  /\ disk' = state'
  /\ threads' = d_threads
  /\ done_set' = DoneSet(state[sec])
  /\ done' = Cardinality(DoneSet(state[sec]))
  /\ t_idx' = 1
  /\ IF Len(d_threads) = 0
     THEN NextSection
     ELSE pc' = "threads" /\ sec' = sec
  /\ d_threads' = <<>>
  /\ page_url' = NoUrl
  /\ rendered' = <<>>
  /\ UNCHANGED <<forum, indexLocals, lockLocals, embedLocals, files, browser,
                 how, runs, d_html, found_new, next_url, d_before, saveLocals,
                 history>>

\* line 748 after the thread loop: save_state, then the next section
SectionEnd ==
  /\ pc = "threads"
  /\ t_idx > Len(threads)
  /\ disk' = state
  /\ NextSection
  /\ UNCHANGED <<forum, indexLocals, lockLocals, embedLocals, state, files,
                 browser, how, runs, runLocals, discLocals, saveLocals,
                 history>>

\* lines 724-727: if t_url in done_set: continue
ThreadSkip ==
  /\ pc = "threads"
  /\ t_idx <= Len(threads)
  /\ threads[t_idx][1] \in done_set
  /\ t_idx' = t_idx + 1
  /\ UNCHANGED <<forum, indexLocals, lockLocals, embedLocals, store, ctl,
                 threads, done_set, done, discLocals, saveLocals, history>>

\* lines 729-736: the thread is not done, save_thread is called
ThreadBegin ==
  /\ pc = "threads"
  /\ t_idx <= Len(threads)
  /\ threads[t_idx][1] \notin done_set
  /\ done' = done + 1
  /\ processed' = [processed EXCEPT ![sec] = Append(@, threads[t_idx][1])]
  /\ pc' = "save_thread"
  /\ UNCHANGED <<forum, indexLocals, lockLocals, embedLocals, store, how, runs,
                 sec, threads, done_set, t_idx, discLocals, saveLocals, start,
                 prevHow, written, listed, delayed>>

\* ---------------------------------------------------------- save_thread()
thread_url == threads[t_idx][1]

AppendPage(st, s, url) ==
  [st EXCEPT ![s].thread_pages_done = Append(@, url)]

Opened(fs, fpath) ==
  [p \in DOMAIN fs \cup {fpath} |-> IF p = fpath THEN "partial" ELSE fs[p]]

\* lines 627-629: the first page does not render, return 0
SaveFetchFail ==
  /\ pc = "save_thread"
  /\ saved' = 0
  /\ delayed' = FALSE
  /\ pc' = "thread_done"
  /\ UNCHANGED <<forum, indexLocals, lockLocals, embedLocals, store, how, runs,
                 sec, runLocals, discLocals, thread_pages, pg_idx, start,
                 prevHow, written, processed, listed>>

\* lines 627-636 and 640-641: the first page renders; a single-page thread
\* has its flat file opened, a multi-page thread enters the page loop
SaveFetch ==
  /\ pc = "save_thread"
  /\ thread_url \notin forum.bad
  /\ LET pages == discover_thread_pages(thread_url, ThreadDoc(forum, thread_url))
     IN /\ thread_pages' = pages
        /\ IF Len(pages) <= 1
           THEN LET fpath == FlatPath(sec, get_thread_id(thread_url))
                IN /\ files' = Opened(files, fpath)
                   /\ written' = written \cup {fpath}
                   /\ pc' = "flat_open"
           ELSE /\ pc' = "save_page"
                /\ UNCHANGED <<files, written>>
  /\ pg_idx' = 1
  /\ saved' = 0
  /\ delayed' = TRUE
  /\ UNCHANGED <<forum, indexLocals, lockLocals, embedLocals, state, disk,
                 browser, how, runs, sec, runLocals, discLocals, start,
                 prevHow, processed, listed>>

\* line 637: f.write(html)
FlatWrite ==
  /\ pc = "flat_open"
  /\ files' = [files EXCEPT ![FlatPath(sec, get_thread_id(thread_url))] = "full"]
  /\ pc' = "flat_written"
  /\ UNCHANGED <<forum, indexLocals, lockLocals, embedLocals, state, disk,
                 browser, how, runs, sec, runLocals, discLocals, saveLocals,
                 history>>

\* lines 638-639: the thread URL is recorded as a saved page, return 1
FlatRecord ==
  /\ pc = "flat_written"
  /\ state' = AppendPage(state, sec, thread_url)
  /\ saved' = 1
  /\ pc' = "thread_done"
  /\ UNCHANGED <<forum, indexLocals, lockLocals, embedLocals, disk, files,
                 browser, how, runs, sec, runLocals, discLocals, thread_pages,
                 pg_idx, history>>

st_val == thread_pages[pg_idx][1]
pg_url == thread_pages[pg_idx][2]
page_fpath == PagePath(sec, get_thread_id(thread_url), PgNum(st_val))

\* line 666: the page loop is over, return saved
PagesReturn ==
  /\ pc = "save_page"
  /\ pg_idx > Len(thread_pages)
  /\ pc' = "thread_done"
  /\ UNCHANGED <<forum, indexLocals, lockLocals, embedLocals, store, how, runs,
                 sec, runLocals, discLocals, saveLocals, history>>

\* lines 646-650: the page file exists with more than 200 bytes
PageExists ==
  /\ pc = "save_page"
  /\ pg_idx <= Len(thread_pages)
  /\ ExistsBig(files, page_fpath)
  /\ state' = IF pg_url \notin Range(state[sec].thread_pages_done)
              THEN AppendPage(state, sec, pg_url)
              ELSE state
  /\ saved' = saved + 1
  /\ pg_idx' = pg_idx + 1
  /\ UNCHANGED <<forum, indexLocals, lockLocals, embedLocals, disk, files,
                 browser, ctl, runLocals, discLocals, thread_pages, history>>

\* lines 652-658: a later page does not render: continue
PageFetchFail ==
  /\ pc = "save_page"
  /\ pg_idx <= Len(thread_pages)
  /\ ~ExistsBig(files, page_fpath)
  /\ st_val # 0
  /\ pg_idx' = pg_idx + 1
  /\ delayed' = FALSE
  /\ UNCHANGED <<forum, indexLocals, lockLocals, embedLocals, store, ctl,
                 runLocals, discLocals, thread_pages, saved, start, prevHow,
                 written, processed, listed>>

\* lines 652-661: the page's html is at hand (offset 0: the first page's;
\* otherwise rendered now, fetch_page ending with the sleep of line 550) and
\* its file is opened for writing
PageOpen ==
  /\ pc = "save_page"
  /\ pg_idx <= Len(thread_pages)
  /\ ~ExistsBig(files, page_fpath)
  /\ files' = Opened(files, page_fpath)
  /\ written' = written \cup {page_fpath}
  /\ delayed' = IF st_val = 0 THEN delayed ELSE TRUE
  /\ pc' = "page_open"
  /\ UNCHANGED <<forum, indexLocals, lockLocals, embedLocals, state, disk,
                 browser, how, runs, sec, runLocals, discLocals, saveLocals,
                 start, prevHow, processed, listed>>

\* line 662: f.write(pg_html)
PageWrite ==
  /\ pc = "page_open"
  /\ files' = [files EXCEPT ![page_fpath] = "full"]
  /\ pc' = "page_written"
  /\ UNCHANGED <<forum, indexLocals, lockLocals, embedLocals, state, disk,
                 browser, how, runs, sec, runLocals, discLocals, saveLocals,
                 history>>

\* mutant: the page is counted and its URL is not recorded
PageRecordCountOnly ==
  /\ pc = "page_written"
  /\ saved' = saved + 1
  /\ pg_idx' = pg_idx + 1
  /\ pc' = "save_page"
  /\ UNCHANGED <<forum, indexLocals, lockLocals, embedLocals, store, how, runs,
                 sec, runLocals, discLocals, thread_pages, history>>

\* lines 663-664: the page URL is recorded, saved += 1
PageRecord ==
  /\ pc = "page_written"
  /\ state' = AppendPage(state, sec, pg_url)
  /\ saved' = saved + 1
  /\ pg_idx' = pg_idx + 1
  /\ pc' = "save_page"
  /\ UNCHANGED <<forum, indexLocals, lockLocals, embedLocals, disk, files,
                 browser, how, runs, sec, runLocals, discLocals, thread_pages,
                 history>>

\* mutant: a thread is recorded as done only when a page of it was saved
ThreadDoneIfSaved ==
  /\ pc = "thread_done"
  /\ state' = IF saved > 0
              THEN [state EXCEPT ![sec].threads_done = Append(@, thread_url)]
              ELSE state
  /\ disk' = IF done % SaveEvery = 0 THEN state' ELSE disk
  /\ t_idx' = t_idx + 1
  /\ pc' = "threads"
  /\ thread_pages' = <<>> /\ pg_idx' = 1 /\ saved' = 0
  /\ UNCHANGED <<forum, indexLocals, lockLocals, embedLocals, files, browser,
                 how, runs, sec, threads, done_set, done, discLocals, history>>

\* lines 737-746: back in run(): the thread is recorded as done, and the
\* ledger saved every SaveEvery threads
ThreadDone ==
  /\ pc = "thread_done"
  /\ state' = [state EXCEPT ![sec].threads_done = Append(@, thread_url)]
  /\ disk' = IF done % SaveEvery = 0 THEN state' ELSE disk
  /\ t_idx' = t_idx + 1
  /\ pc' = "threads"
  /\ thread_pages' = <<>> /\ pg_idx' = 1 /\ saved' = 0
  /\ UNCHANGED <<forum, indexLocals, lockLocals, embedLocals, files, browser,
                 how, runs, sec, threads, done_set, done, discLocals, history>>

\* ------------------------------------------------- the ways run() can end
TryPcs == {"section", "discover", "scan", "decide", "discovered", "threads",
           "save_thread", "flat_open", "flat_written", "save_page",
           "page_open", "page_written", "thread_done"}

\* mutant: an interrupt of discovery stores the threads collected so far
InterruptStoresPartial ==
  /\ pc \in TryPcs
  /\ how' = "interrupt"
  /\ pc' = "finally"
  /\ state' = IF pc \in {"scan", "decide"}
              THEN [state EXCEPT ![sec].threads_found = Flatten(d_threads)]
              ELSE state
  /\ UNCHANGED <<forum, indexLocals, lockLocals, embedLocals, disk, files,
                 browser, runs, sec, runLocals, discLocals, saveLocals,
                 history>>

\* line 752: KeyboardInterrupt raised anywhere inside the try block
Interrupt ==
  /\ pc \in TryPcs
  /\ how' = "interrupt"
  /\ pc' = "finally"
  /\ UNCHANGED <<forum, indexLocals, lockLocals, embedLocals, store, runs, sec,
                 runLocals, discLocals, saveLocals, history>>

\* lines 593 and 618: int() of an st that is not a number raises ValueError
\* in discover_threads or, after the first page of a thread rendered, in
\* discover_thread_pages; run() does not catch it
MalformedLink ==
  /\ \/ pc = "scan" /\ ScanRaises
     \/ pc = "save_thread" /\ thread_url \in forum.bad
  /\ how' = "malformed"
  /\ pc' = "finally"
  /\ UNCHANGED <<forum, indexLocals, lockLocals, embedLocals, store, runs, sec,
                 runLocals, discLocals, saveLocals, history>>

\* an exception other than KeyboardInterrupt leaves the try block: int() of a
\* non-numeric st (lines 593, 618), an OSError of open() (lines 636, 661)
Crash ==
  /\ pc \in {"scan", "save_thread", "save_page"}
  /\ how' = "error"
  /\ pc' = "finally"
  /\ UNCHANGED <<forum, indexLocals, lockLocals, embedLocals, store, runs, sec,
                 runLocals, discLocals, saveLocals, history>>

\* the locals of run() and of the calls it was in are dead once the try
\* block is left
LocalsDead ==
  /\ sec' = 1
  /\ threads' = <<>> /\ done_set' = {} /\ done' = 0 /\ t_idx' = 1
  /\ d_threads' = <<>> /\ page_url' = NoUrl /\ d_html' = <<>>
  /\ found_new' = FALSE /\ next_url' = NoUrl /\ d_before' = <<>>
  /\ rendered' = <<>>
  /\ thread_pages' = <<>> /\ pg_idx' = 1 /\ saved' = 0

\* mutant: the cleanup path stops the browser and does not save
FinallyNoSave ==
  /\ pc = "finally"
  /\ browser' = "closed"
  /\ pc' = "exit"
  /\ LocalsDead
  /\ UNCHANGED <<forum, indexLocals, lockLocals, embedLocals, state, disk,
                 files, how, runs, history>>

\* lines 754-756: finally: stop_browser(); save_state()
Finally ==
  /\ pc = "finally"
  /\ browser' = "closed"
  /\ disk' = state
  /\ pc' = "exit"
  /\ LocalsDead
  /\ UNCHANGED <<forum, indexLocals, lockLocals, embedLocals, state, files,
                 how, runs, history>>

\* _print_summary, lines 771-772: section_state(sec_name) of every section
SummaryState(st) ==
  [s \in Sections |-> IF s \in DOMAIN st THEN st[s] ELSE NewSectionState]

\* line 758: run() returns after _print_summary(); an unexpected error
\* propagates instead
RunExit ==
  /\ pc = "exit"
  /\ state' = IF how \in {"error", "malformed"} THEN state
              ELSE SummaryState(state)
  /\ pc' = "idle"
  /\ UNCHANGED <<forum, indexLocals, lockLocals, embedLocals, disk, files,
                 browser, how, runs, sec, runLocals, discLocals, saveLocals,
                 history>>

\* ------------------------------------------- fetch_page: image embedding
\* line 502: self._image_cache.clear(), then the page is loaded
FetchStart ==
  /\ pc = "fetch"
  /\ cache' = EmptyCache
  /\ stale' = {}
  /\ pc' = "render"
  /\ UNCHANGED <<forum, indexLocals, lockLocals, store, how, runs, sec,
                 runLocals, discLocals, saveLocals, history, page, imgs, e_idx,
                 fetches, pass, styles, s_idx>>

\* lines 284-299: a response of the loading page reaches _on_response
OnResponse ==
  /\ pc = "render"
  /\ \E response \in Tier1Responses :
       /\ cache' = on_response(cache, response)
       /\ stale' = IF Cached(response) THEN stale \ {response.url} ELSE stale
  /\ UNCHANGED <<forum, indexLocals, lockLocals, store, ctl, runLocals,
                 discLocals, saveLocals, history, page, imgs, e_idx, fetches,
                 pass, styles, s_idx>>

\* lines 284-299, during line 504: a response to a request of the page loaded
\* before reaches _on_response after the cache was cleared
LateResponse ==
  /\ pc = "render"
  /\ \E response \in Tier1Responses :
       /\ cache' = on_response(cache, response)
       /\ stale' = IF Cached(response) THEN stale \cup {response.url} ELSE stale
  /\ UNCHANGED <<forum, indexLocals, lockLocals, store, ctl, runLocals,
                 discLocals, saveLocals, history, page, imgs, e_idx, fetches,
                 pass, styles, s_idx>>

\* lines 538-545 and 371-376: page.content() is parsed, img_tags collected
PageContent ==
  /\ pc = "render"
  /\ \E html \in ImgPages : page' = html /\ imgs' = html
  /\ e_idx' = 1
  /\ pass' = 1
  /\ pc' = "embed"
  /\ UNCHANGED <<forum, indexLocals, lockLocals, store, how, runs, sec,
                 runLocals, discLocals, saveLocals, history, cache, fetches,
                 stale, styles, s_idx>>

\* lines 387-388: no attribute gives an http source: continue
EmbedSkip ==
  /\ pc = "embed"
  /\ e_idx <= Len(imgs)
  /\ SrcOf(imgs[e_idx]) = Absent
  /\ e_idx' = e_idx + 1
  /\ UNCHANGED <<forum, indexLocals, lockLocals, store, ctl, runLocals,
                 discLocals, saveLocals, history, cache, page, imgs, fetches,
                 pass, stale, styles, s_idx>>

\* lines 391-400: the data URI the cache gives for the resolved source, or
\* else for the source as written
CacheLookup(c, src) ==
  IF get_data_uri(c, NormalizeImg(src)) # <<>>
  THEN get_data_uri(c, NormalizeImg(src))
  ELSE get_data_uri(c, src)

\* lines 396-400 and 413-420: the cache holds the image
EmbedFromCache ==
  /\ pc = "embed"
  /\ e_idx <= Len(imgs)
  /\ SrcOf(imgs[e_idx]) # Absent
  /\ CacheLookup(cache, SrcOf(imgs[e_idx])) # <<>>
  /\ imgs' = [imgs EXCEPT ![e_idx] =
                Inlined(@, CacheLookup(cache, SrcOf(imgs[e_idx])))]
  /\ e_idx' = e_idx + 1
  /\ UNCHANGED <<forum, indexLocals, lockLocals, store, ctl, runLocals,
                 discLocals, saveLocals, history, cache, page, fetches, pass,
                 stale, styles, s_idx>>

\* lines 403-420: the cache does not hold the image: it is requested, and
\* inlined and cached when the request gives one
EmbedFallback ==
  /\ pc = "embed"
  /\ e_idx <= Len(imgs)
  /\ SrcOf(imgs[e_idx]) # Absent
  /\ CacheLookup(cache, SrcOf(imgs[e_idx])) = <<>>
  /\ LET full_src == NormalizeImg(SrcOf(imgs[e_idx]))
     IN \E resp \in Tier2Responses :
          LET result == download_image_requests(full_src, resp)
          IN /\ fetches' = Append(fetches, [url |-> full_src, ok |-> resp.ok,
                                             ct |-> resp.ct])
             /\ IF result # <<>>
                THEN /\ imgs' = [imgs EXCEPT ![e_idx] =
                                   Inlined(@, DataUri(result[1], result[2]))]
                     /\ cache' = CachePut(cache, full_src, result[1],
                                          result[2])
                     /\ stale' = stale \ {full_src}
                ELSE UNCHANGED <<imgs, cache, stale>>
  /\ e_idx' = e_idx + 1
  /\ UNCHANGED <<forum, indexLocals, lockLocals, store, ctl, runLocals,
                 discLocals, saveLocals, history, page, pass, styles, s_idx>>

\* lines 426-427 and 433-435: the cache holds the image under the URL as
\* the style attribute writes it
StyleFromCache ==
  /\ pc = "embed"
  /\ e_idx > Len(imgs)
  /\ s_idx <= Len(styles)
  /\ get_data_uri(cache, styles[s_idx]) # <<>>
  /\ styles' = [styles EXCEPT ![s_idx] =
                  DataVal(get_data_uri(cache, styles[s_idx]))]
  /\ s_idx' = s_idx + 1
  /\ UNCHANGED <<forum, indexLocals, lockLocals, store, ctl, runLocals,
                 discLocals, saveLocals, history, cache, page, imgs, e_idx,
                 fetches, pass, stale>>

\* lines 427-436: the cache does not hold the image under that URL: it is
\* requested, and the URL replaced and the image cached when the request
\* gives one
StyleFallback ==
  /\ pc = "embed"
  /\ e_idx > Len(imgs)
  /\ s_idx <= Len(styles)
  /\ get_data_uri(cache, styles[s_idx]) = <<>>
  /\ LET img_url == styles[s_idx]
     IN \E resp \in Tier2Responses :
          LET result == download_image_requests(img_url, resp)
          IN /\ fetches' = Append(fetches, [url |-> img_url, ok |-> resp.ok,
                                             ct |-> resp.ct])
             /\ IF result # <<>>
                THEN /\ styles' = [styles EXCEPT ![s_idx] =
                                     DataVal(DataUri(result[1], result[2]))]
                     /\ cache' = CachePut(cache, img_url, result[1],
                                          result[2])
                     /\ stale' = stale \ {img_url}
                ELSE UNCHANGED <<styles, cache, stale>>
  /\ s_idx' = s_idx + 1
  /\ UNCHANGED <<forum, indexLocals, lockLocals, store, ctl, runLocals,
                 discLocals, saveLocals, history, page, imgs, e_idx, pass>>

\* line 449: every img element and every style attribute was visited
EmbedReturn ==
  /\ pc = "embed"
  /\ e_idx > Len(imgs)
  /\ s_idx > Len(styles)
  /\ pc' = "embedded"
  /\ UNCHANGED <<forum, indexLocals, lockLocals, store, how, runs, sec,
                 runLocals, discLocals, saveLocals, history, embedLocals>>

\* _embed_images_in_html is called on the markup it returned, with the cache
\* as it is or emptied
Reapply ==
  /\ pc = "embedded"
  /\ pass = 1
  /\ page' = imgs
  /\ e_idx' = 1
  /\ fetches' = <<>>
  /\ pass' = 2
  /\ \E c \in {cache, EmptyCache} : cache' = c
  /\ stale' = {}
  /\ pc' = "embed"
  /\ UNCHANGED <<forum, indexLocals, lockLocals, store, how, runs, sec,
                 runLocals, discLocals, saveLocals, history, imgs,
                 styles, s_idx>>

Init == InitRun

Next ==
  \/ RunStart
  \/ SectionBegin
  \/ DiscoverFetchFail
  \/ DiscoverFetch
  \/ DiscoverScan
  \/ DiscoverDecide
  \/ DiscoverDone
  \/ SectionEnd
  \/ ThreadSkip
  \/ ThreadBegin
  \/ SaveFetchFail
  \/ SaveFetch
  \/ FlatWrite
  \/ FlatRecord
  \/ PagesReturn
  \/ PageExists
  \/ PageFetchFail
  \/ PageOpen
  \/ PageWrite
  \/ PageRecord
  \/ ThreadDone
  \/ Interrupt
  \/ Crash
  \/ MalformedLink
  \/ Finally
  \/ RunExit

Spec == Init /\ [][Next]_vars

\* ------------------------------------------- discover_threads taken alone
\* one call of discover_threads on the listing pages of section 1, every
\* render returning any listing document or failing
InitDiscover ==
  /\ forum = AnySource
  /\ state = EmptyLedger
  /\ disk = EmptyLedger
  /\ files = [p \in {} |-> "full"]
  /\ browser = "on"
  /\ pc = "discover"
  /\ how = "normal"
  /\ runs = 1
  /\ sec = 1
  /\ threads = <<>> /\ done_set = {} /\ done = 0 /\ t_idx = 1
  /\ d_threads = <<>> /\ page_url = SectionUrl(1) /\ d_html = <<>>
  /\ found_new = FALSE /\ next_url = NoUrl /\ d_before = <<>>
  /\ rendered = <<>>
  /\ thread_pages = <<>> /\ pg_idx = 1 /\ saved = 0
  /\ start = EmptyLedger
  /\ prevHow = "none"
  /\ delayed = TRUE
  /\ written = {}
  /\ processed = [s \in Sections |-> <<>>]
  /\ listed = {}
  /\ NoEmbedLocals
  /\ NoLockLocals
  /\ NoIndexLocals

NextDiscover ==
  \/ DiscoverFetchFail
  \/ DiscoverFetch
  \/ DiscoverScan
  \/ DiscoverDecide

SpecDiscover == InitDiscover /\ [][NextDiscover]_vars

\* one call of discover_threads on listing pages of pagination links; the
\* call goes on as long as it has a step to take: the renders return
\* (fetch_page waits with timeouts, lines 504-530) and the loops over the
\* links of a page are finite
InitNav ==
  /\ forum = NavSource
  /\ state = EmptyLedger
  /\ disk = EmptyLedger
  /\ files = [p \in {} |-> "full"]
  /\ browser = "on"
  /\ pc = "discover"
  /\ how = "normal"
  /\ runs = 1
  /\ sec = 1
  /\ threads = <<>> /\ done_set = {} /\ done = 0 /\ t_idx = 1
  /\ d_threads = <<>> /\ page_url = SectionUrl(1) /\ d_html = <<>>
  /\ found_new = FALSE /\ next_url = NoUrl /\ d_before = <<>>
  /\ rendered = <<>>
  /\ thread_pages = <<>> /\ pg_idx = 1 /\ saved = 0
  /\ start = EmptyLedger
  /\ prevHow = "none"
  /\ delayed = TRUE
  /\ written = {}
  /\ processed = [s \in Sections |-> <<>>]
  /\ listed = {}
  /\ NoEmbedLocals
  /\ NoLockLocals
  /\ NoIndexLocals

SpecNav == InitNav /\ [][NextDiscover]_vars /\ WF_vars(NextDiscover)

\* ---------------------------------------------- save_thread taken alone
\* links of the first page of thread 1: to pagination offsets of the thread
\* and to a page of another thread
PageLinks == {PageLink(1, o) : o \in -1..MaxOffset} \cup {PageLink(2, 30)}

\* the first page carries no, one or two such links
ThreadDocs ==
  {<<>>} \cup {<<a>> : a \in PageLinks}
         \cup {<<a, b>> : a \in PageLinks, b \in PageLinks}

\* one call of save_thread, on thread 1 of section 1, whose first page is any
\* of ThreadDocs
InitPages ==
  /\ forum \in {Fixed([u \in {ThreadLink(1)} |-> doc]) : doc \in ThreadDocs}
  /\ state = (1 :> [NewSectionState EXCEPT
                      !.threads_found = <<BaseThread(1), TitleOf(1)>>])
  /\ disk = state
  /\ files = [p \in {} |-> "full"]
  /\ browser = "on"
  /\ pc = "save_thread"
  /\ how = "normal"
  /\ runs = 1
  /\ sec = 1
  /\ threads = <<<<BaseThread(1), TitleOf(1)>>>>
  /\ done_set = {} /\ done = 1 /\ t_idx = 1
  /\ NoDiscLocals
  /\ thread_pages = <<>> /\ pg_idx = 1 /\ saved = 0
  /\ start = EmptyLedger
  /\ prevHow = "none"
  /\ delayed = TRUE
  /\ written = {}
  /\ processed = [s \in Sections |-> IF s = 1 THEN <<BaseThread(1)>> ELSE <<>>]
  /\ listed = {1}
  /\ NoEmbedLocals
  /\ NoLockLocals
  /\ NoIndexLocals

NextPages ==
  \/ SaveFetchFail
  \/ SaveFetch
  \/ FlatWrite
  \/ FlatRecord
  \/ PagesReturn
  \/ PageExists
  \/ PageFetchFail
  \/ PageOpen
  \/ PageWrite
  \/ PageRecord

SpecPages == InitPages /\ [][NextPages]_vars

\* ------------------------------------------------ fetch_page taken alone
\* the caches a page load may leave behind
RECURSIVE CachesAfter(_)
CachesAfter(n) ==
  IF n = 0 THEN {EmptyCache}
  ELSE CachesAfter(n - 1) \cup
       {on_response(c, r) : c \in CachesAfter(n - 1), r \in Tier1Responses}

\* one call of fetch_page(url, embed=True), the page being any of ImgPages
\* and the cache holding what an earlier page left in it
InitEmbed ==
  /\ forum = AnySource
  /\ state = EmptyLedger
  /\ disk = EmptyLedger
  /\ files = [p \in {} |-> "full"]
  /\ browser = "on"
  /\ pc = "fetch"
  /\ how = "normal"
  /\ runs = 1
  /\ sec = 1
  /\ threads = <<>> /\ done_set = {} /\ done = 0 /\ t_idx = 1
  /\ NoDiscLocals
  /\ thread_pages = <<>> /\ pg_idx = 1 /\ saved = 0
  /\ start = EmptyLedger
  /\ prevHow = "none"
  /\ delayed = TRUE
  /\ written = {}
  /\ processed = [s \in Sections |-> <<>>]
  /\ listed = {}
  /\ cache \in CachesAfter(1)
  /\ page = <<>>
  /\ imgs = <<>>
  /\ e_idx = 1
  /\ styles = <<>>
  /\ s_idx = 1
  /\ fetches = <<>>
  /\ pass = 0
  /\ stale = DOMAIN cache
  /\ NoLockLocals
  /\ NoIndexLocals

NextEmbed ==
  \/ FetchStart
  \/ OnResponse
  \/ PageContent
  \/ EmbedSkip
  \/ EmbedFromCache
  \/ EmbedFallback
  \/ EmbedReturn

SpecEmbed == InitEmbed /\ [][NextEmbed]_vars

\* ------------------------- _embed_images_in_html on a page with styles
\* the img elements of such a page: none, one of image 1, one of image 1
\* and one addressing it with a fragment, or one that is a data URI
StyledImgPages ==
  {<<>>,
   <<Img("src" :> HttpVal(1, FALSE))>>,
   <<Img("src" :> HttpVal(1, FALSE)), Img("src" :> HttpVal(1, TRUE))>>,
   <<Img("src" :> DataVal(Spacer))>>}

\* the url(...) of the style attributes of such a page, one for each tag:
\* what the pattern of line 425 takes runs up to a quote, a parenthesis or
\* a space, so a fragment is part of it
StyleUrls == {HttpVal(1, FALSE), HttpVal(1, TRUE), HttpVal(2, FALSE)}

MaxStyles == 2

\* one call of _embed_images_in_html on a page whose load was captured by
\* no response
InitStyle ==
  /\ forum = AnySource
  /\ state = EmptyLedger
  /\ disk = EmptyLedger
  /\ files = [p \in {} |-> "full"]
  /\ browser = "on"
  /\ pc = "embed"
  /\ how = "normal"
  /\ runs = 1
  /\ sec = 1
  /\ threads = <<>> /\ done_set = {} /\ done = 0 /\ t_idx = 1
  /\ NoDiscLocals
  /\ thread_pages = <<>> /\ pg_idx = 1 /\ saved = 0
  /\ start = EmptyLedger
  /\ prevHow = "none"
  /\ delayed = TRUE
  /\ written = {}
  /\ processed = [s \in Sections |-> <<>>]
  /\ listed = {}
  /\ cache = EmptyCache
  /\ page \in StyledImgPages
  /\ imgs = page
  /\ e_idx = 1
  /\ styles \in SeqsUpTo(StyleUrls, MaxStyles)
  /\ s_idx = 1
  /\ fetches = <<>>
  /\ pass = 1
  /\ stale = {}
  /\ NoLockLocals
  /\ NoIndexLocals

NextStyle ==
  \/ EmbedSkip
  \/ EmbedFromCache
  \/ EmbedFallback
  \/ StyleFromCache
  \/ StyleFallback
  \/ EmbedReturn

SpecStyle == InitStyle /\ [][NextStyle]_vars

\* the embedding step applied once more, to its own output
NextReapply == NextEmbed \/ Reapply

SpecReapply == InitEmbed /\ [][NextReapply]_vars

\* fetch_page with late responses of the page loaded before
NextLate == NextEmbed \/ LateResponse

SpecLate == InitEmbed /\ [][NextLate]_vars

\* ===================================================================
\* Properties
\* ===================================================================
\* the record a ledger holds for a section, an absent record being empty
View(l, s) == IF s \in DOMAIN l THEN l[s] ELSE NewSectionState

FoundUrls(l, s) ==
  {View(l, s).threads_found[2 * i - 1] :
     i \in 1..(Len(View(l, s).threads_found) \div 2)}

FoundTids(l, s) == {get_thread_id(u) : u \in FoundUrls(l, s)}

DoneOf(l, s) == Range(View(l, s).threads_done)

PagesOf(l, s) == Range(View(l, s).thread_pages_done)

\* C1: in the in-memory ledger and in the persisted one, for every section,
\* every URL of threads_done is a thread URL of threads_found and every URL
\* of thread_pages_done carries the thread id of a thread of threads_found.
C1_DoneWithinFound ==
  \A l \in {state, disk} : \A s \in Sections :
    /\ DoneOf(l, s) \subseteq FoundUrls(l, s)
    /\ \A u \in PagesOf(l, s) : get_thread_id(u) \in FoundTids(l, s)

\* C1 witness: a second run, started from the persisted ledger, holds a done
\* thread and a saved page at a pagination offset in a section.
C1_Witness ==
  /\ runs = 2
  /\ pc = "threads"
  /\ \E s \in Sections :
       /\ DoneOf(disk, s) # {}
       /\ DoneOf(state, s) # DoneOf(disk, s)
       /\ \E u \in PagesOf(state, s) : u.st # <<>>

\* C2: once a section's threads_found is not empty no step changes it, in
\* memory, on disk or by loading the persisted ledger in a later run, and a
\* listing page is rendered only for a section whose threads_found is empty.
C2_FoundFrozen ==
  [][/\ \A s \in Sections :
          /\ View(state, s).threads_found # <<>>
               => View(state', s).threads_found = View(state, s).threads_found
          /\ View(disk, s).threads_found # <<>>
               => View(disk', s).threads_found = View(disk, s).threads_found
     /\ rendered' # rendered /\ rendered' # <<>>
          => View(state, sec).threads_found = <<>>]_vars

\* C2 witness: a later run takes the cached list of a section it did not
\* discover again, and is working through its threads.
C2_Witness ==
  /\ runs = 2
  /\ pc = "save_thread"
  /\ sec \notin listed
  /\ View(start, sec).threads_found # <<>>
  /\ View(state, sec).threads_found = View(start, sec).threads_found

C4_RerunNoWrites ==
  prevHow = "normal" =>
    /\ written = {}
    /\ \A s \in Sections :
         View(state, s) = View(start, s) /\ View(disk, s) = View(start, s)

\* C4 amended: a run that follows a run that completed normally writes no
\* file of, and leaves the ledger record of, every section whose
\* threads_found it loaded non-empty.
C4_RerunNoWritesWhereFound ==
  prevHow = "normal" =>
    \A s \in Sections :
      View(start, s).threads_found # <<>> =>
        /\ \A p \in written : p.sec # s
        /\ View(state, s) = View(start, s)
        /\ View(disk, s) = View(start, s)

\* C4 witness: a second run over a ledger with discovered threads, after a
\* run that completed normally, has itself completed.
C4_Witness ==
  /\ prevHow = "normal"
  /\ how = "normal"
  /\ pc = "idle"
  /\ \E s \in Sections : View(start, s).threads_found # <<>>

\* the threads of section s the loaded ledger holds as discovered and not
\* completed, in discovered order
Pending(s) ==
  LET found == View(start, s).threads_found
      urls == [i \in 1..(Len(found) \div 2) |-> found[2 * i - 1]]
      NotDone(u) == u \notin DoneOf(start, s)
  IN SelectSeq(urls, NotDone)

IsPrefix(a, b) == Len(a) <= Len(b) /\ \A i \in 1..Len(a) : a[i] = b[i]

\* the current run is past section s
Passed(s) ==
  /\ runs > 0
  /\ how = "normal"
  /\ pc \in {"finally", "exit", "idle"} \/ sec > s

\* C5: for a section whose threads_found was loaded non-empty, the run
\* renders no listing page, calls save_thread on the loaded pending threads
\* in discovered order from the first one (on all of them once the section
\* is passed), and writes no file of a thread loaded as completed.
C5_ResumeFromFirstPending ==
  \A s \in Sections :
    View(start, s).threads_found # <<>> =>
      /\ s \notin listed
      /\ IsPrefix(processed[s], Pending(s))
      /\ Passed(s) => processed[s] = Pending(s)
      /\ \A p \in written :
           p.sec = s => BaseThread(p.tid) \notin DoneOf(start, s)

\* C5 witness: a run resumed a section in which the first discovered thread
\* was completed and a later one was not, and is past that section.
C5_Witness ==
  \E s \in Sections :
    /\ Len(View(start, s).threads_found) >= 4
    /\ View(start, s).threads_found[1] \in DoneOf(start, s)
    /\ Len(processed[s]) >= 1
    /\ Passed(s)

\* C6 as stated: when run() has ended the browser is closed and the
\* persisted ledger equals the in-memory ledger.
C6_PersistedEqualsMemory ==
  (pc = "idle" /\ runs > 0) => (browser = "closed" /\ disk = state)

\* C6 amended: the cleanup path closes the browser and persists the ledger
\* as the try block left it; when run() has ended the persisted and the
\* in-memory ledger hold the same three lists for every section, a section
\* without a record counting as one with empty lists.
C6_PersistedAgreesWithMemory ==
  /\ pc = "exit" => (browser = "closed" /\ disk = state)
  /\ (pc = "idle" /\ runs > 0) =>
       /\ browser = "closed"
       /\ \A s \in Sections : View(disk, s) = View(state, s)

\* C6 witness: a run interrupted inside a thread has ended, leaving a saved
\* page of a thread that is not recorded as done.
C6_Witness ==
  /\ pc = "idle"
  /\ how = "interrupt"
  /\ \E s \in Sections :
       \E u \in PagesOf(disk, s) : BaseThread(get_thread_id(u)) \notin DoneOf(disk, s)

\* C7: for every pagination offset st >= 0 of a thread, the file opened and
\* written for it is the page file numbered floor(st / 30) + 1; offset 0
\* gives page 1, offset 30 page 2 and offset 59 page 2.
C7_PageNumberOfOffset ==
  /\ PgNum(0) = 1 /\ PgNum(30) = 2 /\ PgNum(59) = 2
  /\ (pc \in {"page_open", "page_written"} /\ st_val >= 0) =>
       LET fpath == PagePath(sec, get_thread_id(thread_url),
                             (st_val \div 30) + 1)
       IN /\ fpath \in written
          /\ fpath \in DOMAIN files
          /\ files[fpath] = IF pc = "page_open" THEN "partial" ELSE "full"

\* C7 witness: the page at offset 59 of a thread was written as page 2,
\* after the first page as page 1.
C7_Witness ==
  /\ pc = "page_written"
  /\ st_val = 59
  /\ PagePath(sec, get_thread_id(thread_url), 1) \in written
  /\ PagePath(sec, get_thread_id(thread_url), 2) \in written
  /\ files[PagePath(sec, get_thread_id(thread_url), 2)] = "full"

\* the keys of an ordered dict, in order
Keys(od) == [i \in 1..Len(od) |-> od[i][1]]

NoDup(seq) == \A i, j \in 1..Len(seq) : seq[i] = seq[j] => i = j

\* the positions in doc of the links classified as links to thread `key`
LinksTo(doc, key) ==
  {i \in 1..Len(doc) :
     /\ doc[i].t # None
     /\ ~doc[i].skip
     /\ Url(None, doc[i].t, <<>>, FALSE) = key}

Least(S) == CHOOSE i \in S : \A k \in S : i <= k

\* C8: discovery holds every thread once, the threads of earlier pages first
\* and in their order, then the threads first met on the page just scanned
\* in the order of their first link on it; every listing offset is rendered
\* at most once, and a page without next-link ends discovery with no more
\* render. A first page with 3 threads and a next-link to offset 30, then a
\* page with 1 new thread and no next-link: 4 threads and 2 renders.
C8_EachThreadOnceInOrder ==
  /\ [](/\ NoDup(Keys(d_threads))
        /\ NoDup(rendered)
        /\ pc = "decide" =>
             /\ IsPrefix(d_before, d_threads)
             /\ \A i \in 1..Len(d_html) :
                  LinksTo(d_html, Url(None, d_html[i].t, <<>>, FALSE)) # {}
                    => \E k \in 1..Len(d_threads) :
                         d_threads[k][1] = Url(None, d_html[i].t, <<>>, FALSE)
             /\ \A k \in (Len(d_before) + 1)..Len(d_threads) :
                  LinksTo(d_html, d_threads[k][1]) # {}
             /\ \A j, k \in (Len(d_before) + 1)..Len(d_threads) :
                  j < k => Least(LinksTo(d_html, d_threads[j][1]))
                             < Least(LinksTo(d_html, d_threads[k][1]))
             /\ (/\ rendered = <<0, 30>>
                 /\ Len(d_before) = 3
                 /\ Cardinality({d_html[i].t : i \in 1..Len(d_html)}
                                  \ ({None} \cup {d_before[k][1].t :
                                                    k \in 1..3})) = 1
                 /\ next_url = NoUrl)
                  => Len(d_threads) = 4)
  /\ [][/\ (pc = "decide" /\ next_url = NoUrl)
            => (pc' = "discovered" /\ rendered' = rendered
                /\ d_threads' = d_threads)
        /\ rendered' # rendered
            => (pc = "discover" /\ Len(rendered') = Len(rendered) + 1)
        /\ pc = "discovered" => rendered' = rendered \/ rendered' = <<>>]_vars

\* C8 witness: the second listing page, at offset 30, was scanned after a
\* first page that gave 3 threads; it links to one of them again and to 1
\* new thread and has no next-link: 4 threads after 2 renders.
C8_Witness ==
  /\ pc = "decide"
  /\ rendered = <<0, 30>>
  /\ Len(d_before) = 3
  /\ Len(d_threads) = 4
  /\ next_url = NoUrl
  /\ \E i \in 1..Len(d_html) : \E k \in 1..3 : d_before[k][1].t = d_html[i].t

\* the positions in the page just rendered of the links with the section's
\* f parameter and an st above that of the URL rendered
Forward ==
  {i \in 1..Len(d_html) :
     /\ d_html[i].f = SectionUrl(sec).f
     /\ d_html[i].st # <<>>
     /\ d_html[i].st[1] > (IF page_url.st = <<>> THEN 0 ELSE page_url.st[1])}

StrictlyIncreasing(seq) == \A i, j \in 1..Len(seq) : i < j => seq[i] < seq[j]

\* C9: the next listing URL is the first link, in document order, of the
\* page just rendered that has the section's id and an offset strictly above
\* the offset of the URL rendered (0 when that URL has none), and there is
\* none when no link is such; the offsets rendered by one discovery are
\* strictly increasing.
C9_NextIsFirstForwardLink ==
  /\ StrictlyIncreasing(rendered)
  /\ pc = "decide" =>
       IF Forward = {} THEN next_url = NoUrl
       ELSE next_url = d_html[Least(Forward)]

\* C9 witness: on the page at offset 30 a link to offset 30 of the section
\* and a link to offset 60 of another section come before the link to
\* offset 60 of the section, which is the next listing URL.
C9_Witness ==
  /\ pc = "decide"
  /\ rendered = <<0, 30>>
  /\ Len(d_html) >= 3
  /\ d_html[1] = NextLink(sec, 30)
  /\ d_html[2] = NextLink(sec + 1, 60)
  /\ d_html[3] = NextLink(sec, 60)
  /\ next_url = NextLink(sec, 60)

\* the 6-bit value of every base64 character, 0 for the filler
B64Index ==
  [ch \in Range(B64Alphabet) \cup {"="} |->
     IF ch = "=" THEN 0 ELSE (CHOOSE v \in 1..64 : B64Alphabet[v] = ch) - 1]

B64Value(ch) == B64Index[ch]

\* the bytes a base64 text stands for: every 4 characters give 3 bytes, less
\* one byte for every filler character at the end
B64Decode(text) ==
  LET m == Len(text)
      fill == Cardinality({k \in 1..m : text[k] = "="})
  IN [i \in 1..(3 * (m \div 4) - fill) |->
        LET g == (i - 1) \div 3
            j == (i - 1) % 3
            c1 == B64Value(text[4 * g + 1])
            c2 == B64Value(text[4 * g + 2])
            c3 == B64Value(text[4 * g + 3])
            c4 == B64Value(text[4 * g + 4])
        IN IF j = 0 THEN c1 * 4 + (c2 \div 16)
           ELSE IF j = 1 THEN (c2 % 16) * 16 + (c3 \div 4)
           ELSE (c3 % 4) * 64 + c4]

\* C10: when the embedding pass visits an img element whose resolved source
\* URL has a cache entry (mime m, bytes B), the element's src becomes
\* "data:" m ";base64," followed by a base64 text of 4 characters for every
\* 3 bytes begun that stands for exactly B, and no fallback request is made.
C10_CachedImageInlined ==
  [][(/\ pc = "embed"
      /\ e_idx <= Len(imgs)
      /\ e_idx' = e_idx + 1
      /\ SrcOf(imgs[e_idx]).kind = "http"
      /\ HttpVal(SrcOf(imgs[e_idx]).u, FALSE) \in DOMAIN cache)
       => LET entry == cache[HttpVal(SrcOf(imgs[e_idx]).u, FALSE)]
              src == imgs'[e_idx]["src"]
              b64 == SubSeq(src.text, 4, Len(src.text))
          IN /\ src.kind = "data"
             /\ Len(src.text) >= 3
             /\ SubSeq(src.text, 1, 3) = <<"data:", entry[1], ";base64,">>
             /\ Len(b64) = 4 * ((Len(entry[2]) + 2) \div 3)
             /\ B64Decode(b64) = entry[2]
             /\ fetches' = fetches
             /\ cache' = cache]_vars

\* C10 witness: a pass is over in which no fallback request was made and an
\* img element addressed with a fragment, whose resolved URL the cache holds
\* with a payload that is not a whole number of 3-byte groups, became a data
\* URI and lost its srcset.
C10_Witness ==
  /\ pc = "embedded"
  /\ fetches = <<>>
  /\ \E i \in 1..Len(page) :
       /\ page[i]["src"] = HttpVal(page[i]["src"].u, TRUE)
       /\ page[i]["srcset"] # Absent
       /\ HttpVal(page[i]["src"].u, FALSE) \in DOMAIN cache
       /\ Len(cache[HttpVal(page[i]["src"].u, FALSE)][2]) % 3 # 0
       /\ imgs[i]["src"].kind = "data"
       /\ imgs[i]["srcset"] = Absent

\* C11: when the embedding pass visits an img element whose source is not in
\* the cache, and the fallback request for it is answered with an HTML
\* content type, the element keeps every attribute as it was and the cache
\* gets no entry.
C11_HtmlAnswerNotEmbedded ==
  [][(/\ pc = "embed"
      /\ e_idx <= Len(imgs)
      /\ e_idx' = e_idx + 1
      /\ SrcOf(imgs[e_idx]).kind = "http"
      /\ HttpVal(SrcOf(imgs[e_idx]).u, FALSE) \notin DOMAIN cache
      /\ Len(fetches') = Len(fetches) + 1
      /\ fetches'[Len(fetches')].ok
      /\ fetches'[Len(fetches')].ct \in
           {"text/html", "text/html; charset=utf-8"})
       => /\ imgs' = imgs
          /\ cache' = cache
          /\ fetches'[Len(fetches')].url = HttpVal(SrcOf(imgs[e_idx]).u, FALSE)]_vars

\* C11 witness: a pass over a page of one plain image is over; the image was
\* requested, the answer was an HTML document with a charset parameter, the
\* element is as it was loaded and the cache is empty.
C11_Witness ==
  /\ pc = "embedded"
  /\ page = <<Img("src" :> HttpVal(1, FALSE))>>
  /\ imgs = page
  /\ cache = EmptyCache
  /\ fetches = <<[url |-> HttpVal(1, FALSE), ok |-> TRUE,
                  ct |-> "text/html; charset=utf-8"]>>

\* ------------------------------------- ImageCache under its two callers
\* the methods a caller invokes: the callback put (line 297); the main flow
\* clear (502), __len__ (535), get (396, 400 through get_data_uri), put (410)
MethodsOf(t) ==
  IF t = "callback" THEN {"put"} ELSE {"clear", "len", "get", "put"}

\* the payloads a put stores: _on_response stores more than TinyBody bytes
StoredBodies == {b \in Bodies : Len(b) > TinyBody}

\* mutant: the with statement does not wait for the lock
CanAcquireAlways(l) == TRUE

\* threading.Lock: acquired only when no one holds it
CanAcquire(l) == l = "free"

\* lines 206, 210, 222, 226: a method of the cache is called
CacheCall(t) ==
  /\ pc = "cache"
  /\ cs[t].at = "out"
  /\ \E m \in MethodsOf(t) :
       \/ /\ m \in {"clear", "len"}
          /\ cs' = [cs EXCEPT ![t] = [Outside EXCEPT !.method = m,
                                                      !.at = "with"]]
       \/ /\ m = "get"
          /\ \E url \in ImageUrls :
               cs' = [cs EXCEPT ![t] = [Outside EXCEPT !.method = m,
                                                        !.at = "with",
                                                        !.url = url]]
       \/ /\ m = "put"
          /\ \E url \in ImageUrls, data \in StoredBodies :
               cs' = [cs EXCEPT ![t] = [method |-> m, at |-> "with",
                                        url |-> url, data |-> data]]
  /\ UNCHANGED <<forum, indexLocals, store, ctl, runLocals, discLocals,
                 saveLocals, history, embedLocals, lock>>

\* lines 207, 211, 223, 227: with self._lock is entered
LockAcquire(t) ==
  /\ pc = "cache"
  /\ cs[t].at = "with"
  /\ CanAcquire(lock)
  /\ lock' = t
  /\ cs' = [cs EXCEPT ![t].at = "in"]
  /\ UNCHANGED <<forum, indexLocals, store, ctl, runLocals, discLocals,
                 saveLocals, history, embedLocals>>

\* lines 208, 212, 224, 228: the body of the with statement
LockedAccess(t) ==
  /\ pc = "cache"
  /\ cs[t].at = "in"
  /\ cache' = CASE cs[t].method = "put" ->
                     CachePut(cache, cs[t].url, "image/gif", cs[t].data)
                [] cs[t].method = "clear" -> EmptyCache
                [] OTHER -> cache
  /\ cs' = [cs EXCEPT ![t].at = "exit"]
  /\ UNCHANGED <<forum, indexLocals, store, ctl, runLocals, discLocals,
                 saveLocals, history, page, imgs, e_idx, fetches, pass, stale,
                 lock, styles, s_idx>>

\* the with statement is left: the lock is released
LockRelease(t) ==
  /\ pc = "cache"
  /\ cs[t].at = "exit"
  /\ lock' = "free"
  /\ cs' = [cs EXCEPT ![t] = Outside]
  /\ UNCHANGED <<forum, indexLocals, store, ctl, runLocals, discLocals,
                 saveLocals, history, embedLocals>>

InitLock ==
  /\ forum = AnySource
  /\ state = EmptyLedger
  /\ disk = EmptyLedger
  /\ files = [p \in {} |-> "full"]
  /\ browser = "on"
  /\ pc = "cache"
  /\ how = "normal"
  /\ runs = 1
  /\ sec = 1
  /\ threads = <<>> /\ done_set = {} /\ done = 0 /\ t_idx = 1
  /\ NoDiscLocals
  /\ thread_pages = <<>> /\ pg_idx = 1 /\ saved = 0
  /\ start = EmptyLedger
  /\ prevHow = "none"
  /\ delayed = TRUE
  /\ written = {}
  /\ processed = [s \in Sections |-> <<>>]
  /\ listed = {}
  /\ NoEmbedLocals
  /\ NoLockLocals
  /\ NoIndexLocals

NextLock ==
  \/ \E t \in Callers : CacheCall(t)
  \/ \E t \in Callers : LockAcquire(t)
  \/ \E t \in Callers : LockedAccess(t)
  \/ \E t \in Callers : LockRelease(t)

SpecLock == InitLock /\ [][NextLock]_vars

\* ------------------------------------------- yt_downloader.py: VideoIndex
\* the video identifiers the pages hold, and two of SECTIONS in their order
VideoIds == {"A", "B"}
SECTIONS == <<"YTP da internet", "Off topic">>

\* the page of a section that holds the links, relative to site_dir
PageOf(section) == <<section, "1_Thread.html">>

\* None for a title (an empty title is as false as None at line 200, so that
\* the index holds no empty title) and None for a local file
NoTitle == ""
NoFile == <<>>

canonical_yt_url(video_id) == <<"https://www.youtube.com/watch?v=", video_id>>

\* video_id in self.data, and the place of its entry
InIndex(ix, video_id) == \E i \in 1..Len(ix) : ix[i].id = video_id
PlaceOf(ix, video_id) == CHOOSE i \in 1..Len(ix) : ix[i].id = video_id

\* mutant: the lists are appended to without the membership test
add_video_append(ix, video_id, section, source_page) ==
  LET d == IF InIndex(ix, video_id) THEN ix
           ELSE Append(ix, [id |-> video_id,
                            url |-> canonical_yt_url(video_id),
                            title |-> NoTitle, sections |-> <<>>,
                            source_pages |-> <<>>, status |-> "pending",
                            local_file |-> NoFile])
  IN [d EXCEPT ![PlaceOf(d, video_id)] =
        [@ EXCEPT !.sections = Append(@, section),
                  !.source_pages = Append(@, source_page)]]

\* mutant: the entry is set up anew at every call
add_video_reset(ix, video_id, section, source_page) ==
  LET d == IF InIndex(ix, video_id) THEN ix
           ELSE Append(ix, [id |-> video_id,
                            url |-> canonical_yt_url(video_id),
                            title |-> NoTitle, sections |-> <<>>,
                            source_pages |-> <<>>, status |-> "pending",
                            local_file |-> NoFile])
  IN [d EXCEPT ![PlaceOf(d, video_id)] =
        [@ EXCEPT !.sections =
                    IF section \in Range(@) THEN @ ELSE Append(@, section),
                  !.source_pages =
                    IF source_page \in Range(@) THEN @
                    ELSE Append(@, source_page),
                  !.status = "pending"]]

\* lines 167-185
add_video(ix, video_id, section, source_page) ==
  LET d == IF InIndex(ix, video_id) THEN ix
           ELSE Append(ix, [id |-> video_id,
                            url |-> canonical_yt_url(video_id),
                            title |-> NoTitle, sections |-> <<>>,
                            source_pages |-> <<>>, status |-> "pending",
                            local_file |-> NoFile])
  IN [d EXCEPT ![PlaceOf(d, video_id)] =
        [@ EXCEPT !.sections =
                    IF section \in Range(@) THEN @ ELSE Append(@, section),
                  !.source_pages =
                    IF source_page \in Range(@) THEN @
                    ELSE Append(@, source_page)]]

\* lines 187-190
get_status(ix, video_id) ==
  IF InIndex(ix, video_id) THEN ix[PlaceOf(ix, video_id)].status
  ELSE "pending"

\* mutant: only a downloaded video is done
is_done_downloaded(ix, video_id) == get_status(ix, video_id) = "downloaded"

\* lines 192-194
is_done(ix, video_id) ==
  get_status(ix, video_id) \in {"downloaded", "unavailable"}

\* lines 196-201
set_downloaded(ix, video_id, local_file, title) ==
  IF InIndex(ix, video_id)
  THEN [ix EXCEPT ![PlaceOf(ix, video_id)] =
          [@ EXCEPT !.status = "downloaded",
                    !.local_file = local_file,
                    !.title = IF title # NoTitle THEN title ELSE @]]
  ELSE ix

\* lines 203-205
set_unavailable(ix, video_id) ==
  IF InIndex(ix, video_id)
  THEN [ix EXCEPT ![PlaceOf(ix, video_id)].status = "unavailable"]
  ELSE ix

\* lines 207-209
set_failed(ix, video_id) ==
  IF InIndex(ix, video_id)
  THEN [ix EXCEPT ![PlaceOf(ix, video_id)].status = "failed"]
  ELSE ix

\* mutant: every entry that is not downloaded is set to pending
clear_failed_undone(ix) ==
  [i \in 1..Len(ix) |->
     IF ix[i].status # "downloaded" THEN [ix[i] EXCEPT !.status = "pending"]
     ELSE ix[i]]

\* lines 211-214
clear_failed(ix) ==
  [i \in 1..Len(ix) |->
     IF ix[i].status = "failed" THEN [ix[i] EXCEPT !.status = "pending"]
     ELSE ix[i]]

\* ------------------------------------------------ yt_downloader.py: main
\* the values of --max-per-section: absent (or 0, which is false) and 1
MaxPerSection == {0, 1}

\* lines 568-576: the videos of the section, in the order of the index
RECURSIVE InSection(_, _)
InSection(ix, section) ==
  IF ix = <<>> THEN <<>>
  ELSE IF section \in Range(Head(ix).sections)
       THEN <<Head(ix).id>> \o InSection(Tail(ix), section)
       ELSE InSection(Tail(ix), section)

VidsInSec(ix, section, max_per_section) ==
  LET all == InSection(ix, section)
  IN IF max_per_section # 0 /\ Len(all) > max_per_section
     THEN SubSeq(all, 1, max_per_section)
     ELSE all

\* lines 333-432: what download returns for a video and an output directory:
\* (status, local_file, title); local_file and title may be None on success
Returns(video_id, output_dir) ==
  {<<"ok", <<output_dir, video_id>>, "Title">>,
   <<"ok", NoFile, NoTitle>>,
   <<"exists", <<output_dir, video_id>>, "Title">>,
   <<"unavailable", NoFile, NoTitle>>,
   <<"error", NoFile, NoTitle>>}

\* lines 604-621: the index after download returned
AfterDownload(ix, vid, ret) ==
  CASE ret[1] = "ok" -> set_downloaded(ix, vid, ret[2], ret[3])
    [] ret[1] = "exists" ->
         IF ~is_done(ix, vid) THEN set_downloaded(ix, vid, ret[2], ret[3])
         ELSE ix
    [] ret[1] = "unavailable" -> set_unavailable(ix, vid)
    [] OTHER -> set_failed(ix, vid)

\* lines 461-498: the arguments are parsed (every section is selected), the
\* index is loaded and, with --retry-failed, the failed entries are reset and
\* the index is saved
MainStart ==
  /\ pc = "yt_idle"
  /\ runs < MaxRuns
  /\ runs' = runs + 1
  /\ \E retry_failed \in BOOLEAN, scan_only \in BOOLEAN,
        max_per_section \in MaxPerSection :
       /\ opts' = [retry_failed |-> retry_failed, scan_only |-> scan_only,
                   max_per_section |-> max_per_section]
       /\ index' = IF retry_failed THEN clear_failed(index_file)
                   ELSE index_file
       /\ index_file' = index'
  /\ y_sec' = 1
  /\ v_idx' = 1
  /\ pc' = "yt_scan"
  /\ UNCHANGED <<forum, lockLocals, embedLocals, store, how, sec, runLocals,
                 discLocals, saveLocals, history, loaded, last_call, reg>>

\* lines 301-310: a video found in a page of the section is registered
ScanAdd ==
  /\ pc = "yt_scan"
  /\ y_sec <= Len(SECTIONS)
  /\ \E vid \in VideoIds :
       index' = add_video(index, vid, SECTIONS[y_sec],
                          PageOf(SECTIONS[y_sec]))
  /\ UNCHANGED <<forum, lockLocals, embedLocals, store, ctl, runLocals,
                 discLocals, saveLocals, history, index_file, opts, y_sec,
                 v_idx, loaded, last_call, reg>>

\* lines 318-320: scan_all goes to the next section
ScanNextSection ==
  /\ pc = "yt_scan"
  /\ y_sec <= Len(SECTIONS)
  /\ y_sec' = y_sec + 1
  /\ UNCHANGED <<forum, lockLocals, embedLocals, store, ctl, runLocals,
                 discLocals, saveLocals, history, index, index_file, opts,
                 v_idx, loaded, last_call, reg>>

\* lines 505 and 528-554: the index is saved; a scan-only run ends here
ScanDone ==
  /\ pc = "yt_scan"
  /\ y_sec > Len(SECTIONS)
  /\ index_file' = index
  /\ pc' = IF opts.scan_only THEN "yt_idle" ELSE "yt_download"
  /\ opts' = IF opts.scan_only THEN NoOpts ELSE opts
  /\ y_sec' = 1
  /\ v_idx' = 1
  /\ UNCHANGED <<forum, lockLocals, embedLocals, store, how, runs, sec,
                 runLocals, discLocals, saveLocals, history, index, loaded,
                 last_call, reg>>

\* lines 594-597: a video that is done is skipped
DownloadSkip ==
  /\ pc = "yt_download"
  /\ y_sec <= Len(SECTIONS)
  /\ LET vids_in_sec == VidsInSec(index, SECTIONS[y_sec],
                                  opts.max_per_section)
     IN /\ v_idx <= Len(vids_in_sec)
        /\ is_done(index, vids_in_sec[v_idx])
  /\ v_idx' = v_idx + 1
  /\ UNCHANGED <<forum, lockLocals, embedLocals, store, ctl, runLocals,
                 discLocals, saveLocals, history, index, index_file, opts,
                 y_sec, loaded, last_call, reg>>

\* lines 599-626: download is called, its answer recorded, the index saved
Download ==
  /\ pc = "yt_download"
  /\ y_sec <= Len(SECTIONS)
  /\ LET vids_in_sec == VidsInSec(index, SECTIONS[y_sec],
                                  opts.max_per_section)
     IN /\ v_idx <= Len(vids_in_sec)
        /\ ~is_done(index, vids_in_sec[v_idx])
        /\ \E ret \in Returns(vids_in_sec[v_idx], SECTIONS[y_sec]) :
             index' = AfterDownload(index, vids_in_sec[v_idx], ret)
        /\ last_call' = [id |-> vids_in_sec[v_idx],
                         was |-> get_status(index, vids_in_sec[v_idx])]
  /\ index_file' = index'
  /\ v_idx' = v_idx + 1
  /\ UNCHANGED <<forum, lockLocals, embedLocals, store, ctl, runLocals,
                 discLocals, saveLocals, history, opts, y_sec, loaded, reg>>

\* lines 566-573 and 628-636: the section has no video left
DownloadNextSection ==
  /\ pc = "yt_download"
  /\ y_sec <= Len(SECTIONS)
  /\ v_idx > Len(VidsInSec(index, SECTIONS[y_sec], opts.max_per_section))
  /\ y_sec' = y_sec + 1
  /\ v_idx' = 1
  /\ UNCHANGED <<forum, lockLocals, embedLocals, store, ctl, runLocals,
                 discLocals, saveLocals, history, index, index_file, opts,
                 loaded, last_call, reg>>

\* line 638: the index is saved and the run ends
MainEnd ==
  /\ pc = "yt_download"
  /\ y_sec > Len(SECTIONS)
  /\ index_file' = index
  /\ pc' = "yt_idle"
  /\ opts' = NoOpts
  /\ y_sec' = 1
  /\ v_idx' = 1
  /\ last_call' = NoCall
  /\ UNCHANGED <<forum, lockLocals, embedLocals, store, how, runs, sec,
                 runLocals, discLocals, saveLocals, history, index, loaded,
                 reg>>

InitIndex ==
  /\ forum = AnySource
  /\ state = EmptyLedger
  /\ disk = EmptyLedger
  /\ files = [p \in {} |-> "full"]
  /\ browser = "none"
  /\ pc = "yt_idle"
  /\ how = "normal"
  /\ runs = 0
  /\ sec = 1
  /\ threads = <<>> /\ done_set = {} /\ done = 0 /\ t_idx = 1
  /\ NoDiscLocals
  /\ thread_pages = <<>> /\ pg_idx = 1 /\ saved = 0
  /\ start = EmptyLedger
  /\ prevHow = "none"
  /\ delayed = TRUE
  /\ written = {}
  /\ processed = [s \in Sections |-> <<>>]
  /\ listed = {}
  /\ NoEmbedLocals
  /\ NoLockLocals
  /\ NoIndexLocals

NextIndex ==
  \/ MainStart
  \/ ScanAdd
  \/ ScanNextSection
  \/ ScanDone
  \/ DownloadSkip
  \/ Download
  \/ DownloadNextSection
  \/ MainEnd

SpecIndex == InitIndex /\ [][NextIndex]_vars

\* --------------------------------------- add_video, called any number of times
\* the pages of the sections: two of the first section, one of the second
SourcePages ==
  {<<SECTIONS[1], PageOf(SECTIONS[1])>>,
   <<SECTIONS[1], <<SECTIONS[1], "2_Thread/page_1.html">>>>,
   <<SECTIONS[2], PageOf(SECTIONS[2])>>}

\* line 309: add_video is called for a video of a page
AddVideo ==
  /\ pc = "add_video"
  /\ Len(reg) < MaxAdds
  /\ \E vid \in VideoIds, sp \in SourcePages :
       /\ index' = add_video(index, vid, sp[1], sp[2])
       /\ reg' = Append(reg, <<vid, sp[1], sp[2]>>)
  /\ UNCHANGED <<forum, lockLocals, embedLocals, store, ctl, runLocals,
                 discLocals, saveLocals, history, index_file, opts, y_sec,
                 v_idx, loaded, last_call>>

InitAdd ==
  /\ forum = AnySource
  /\ state = EmptyLedger
  /\ disk = EmptyLedger
  /\ files = [p \in {} |-> "full"]
  /\ browser = "none"
  /\ pc = "add_video"
  /\ how = "normal"
  /\ runs = 1
  /\ sec = 1
  /\ threads = <<>> /\ done_set = {} /\ done = 0 /\ t_idx = 1
  /\ NoDiscLocals
  /\ thread_pages = <<>> /\ pg_idx = 1 /\ saved = 0
  /\ start = EmptyLedger
  /\ prevHow = "none"
  /\ delayed = TRUE
  /\ written = {}
  /\ processed = [s \in Sections |-> <<>>]
  /\ listed = {}
  /\ NoEmbedLocals
  /\ NoLockLocals
  /\ NoIndexLocals

NextAdd == AddVideo

SpecAdd == InitAdd /\ [][NextAdd]_vars

\* ------------------------------- add_video and clear_failed on any index
Statuses == {"pending", "downloaded", "unavailable", "failed"}

\* the entry of a video found in the first section, at a status
EntryAt(video_id, status) ==
  [id |-> video_id, url |-> canonical_yt_url(video_id),
   title |-> IF status = "downloaded" THEN "Title" ELSE NoTitle,
   sections |-> <<SECTIONS[1]>>,
   source_pages |-> <<PageOf(SECTIONS[1])>>,
   status |-> status,
   local_file |-> IF status = "downloaded" THEN <<SECTIONS[1], video_id>>
                  ELSE NoFile]

\* the indexes of three videos
Indexes ==
  {<<EntryAt("A", a), EntryAt("B", b), EntryAt("C", c)>> :
     a \in Statuses, b \in Statuses, c \in Statuses}

\* line 309: add_video is called, for a video of the index or for another
EntryAdd ==
  /\ pc \in {"entries", "added", "cleared"}
  /\ \E vid \in {"A", "B", "C", "D"}, section \in Range(SECTIONS) :
       index' = add_video(index, vid, section, PageOf(section))
  /\ loaded' = index
  /\ pc' = "added"
  /\ UNCHANGED <<forum, lockLocals, embedLocals, store, how, runs, sec,
                 runLocals, discLocals, saveLocals, history, index_file, opts,
                 y_sec, v_idx, last_call, reg>>

\* line 496: clear_failed is called
EntryClearFailed ==
  /\ pc \in {"entries", "added", "cleared"}
  /\ index' = clear_failed(index)
  /\ loaded' = index
  /\ pc' = "cleared"
  /\ UNCHANGED <<forum, lockLocals, embedLocals, store, how, runs, sec,
                 runLocals, discLocals, saveLocals, history, index_file, opts,
                 y_sec, v_idx, last_call, reg>>

InitEntries ==
  /\ forum = AnySource
  /\ state = EmptyLedger
  /\ disk = EmptyLedger
  /\ files = [p \in {} |-> "full"]
  /\ browser = "none"
  /\ pc = "entries"
  /\ how = "normal"
  /\ runs = 1
  /\ sec = 1
  /\ threads = <<>> /\ done_set = {} /\ done = 0 /\ t_idx = 1
  /\ NoDiscLocals
  /\ thread_pages = <<>> /\ pg_idx = 1 /\ saved = 0
  /\ start = EmptyLedger
  /\ prevHow = "none"
  /\ delayed = TRUE
  /\ written = {}
  /\ processed = [s \in Sections |-> <<>>]
  /\ listed = {}
  /\ NoEmbedLocals
  /\ NoLockLocals
  /\ index \in Indexes
  /\ index_file = index
  /\ loaded = index
  /\ opts = NoOpts /\ y_sec = 1 /\ v_idx = 1
  /\ last_call = NoCall /\ reg = <<>>

NextEntries ==
  \/ EntryAdd
  \/ EntryClearFailed

SpecEntries == InitEntries /\ [][NextEntries]_vars

\* the embedding step is visiting an element
Visiting ==
  /\ pc = "embed"
  /\ e_idx <= Len(imgs)
  /\ e_idx' = e_idx + 1

\* C12 as stated: an element whose src is a data URI is left untouched by
\* the step and no request is made for it, and the step applied to its own
\* output returns that output.
C12_DataUriUntouched ==
  /\ [][(Visiting /\ imgs[e_idx]["src"].kind = "data")
          => (imgs' = imgs /\ fetches' = fetches)]_vars
  /\ []((pc = "embedded" /\ pass = 2) => imgs = page)

\* an element that no attribute other than src gives an http source for
NoLazySource(img) ==
  \A a \in {"data-src", "data-lazy-src", "data-original", "data-url",
            "data-image"} : img[a].kind # "http"

\* C12 amended: an element whose src is a data URI and that has no http
\* source in a lazy-load attribute is left untouched, with no request and no
\* cache change; every element the step changes is left in that form; so,
\* when the step is applied to its own output, such elements stay as they
\* are and the markup is returned unchanged when none of its elements has an
\* http source (an element left with one is attempted again).
C12_EmbeddedUntouched ==
  /\ [][/\ (Visiting /\ imgs[e_idx]["src"].kind = "data"
                     /\ NoLazySource(imgs[e_idx]))
            => (imgs' = imgs /\ fetches' = fetches /\ cache' = cache)
        /\ (Visiting /\ imgs' # imgs)
            => (/\ imgs'[e_idx]["src"].kind = "data"
                /\ NoLazySource(imgs'[e_idx]))]_vars
  /\ [](pass = 2 =>
          /\ \A i \in 1..Len(page) :
               (page[i]["src"].kind = "data" /\ NoLazySource(page[i]))
                 => imgs[i] = page[i]
          /\ (\A i \in 1..Len(page) :
                page[i]["src"].kind # "http" /\ NoLazySource(page[i]))
               => (imgs = page /\ fetches = <<>>))

\* C12 witness: the step was applied to its own output, in which the first
\* element had been embedded by the first application and the second was a
\* data URI from the start, and returned it unchanged.
C12_Witness ==
  /\ pc = "embedded"
  /\ pass = 2
  /\ Len(page) = 2
  /\ page[1]["src"].kind = "data"
  /\ page[1]["src"].text # Spacer
  /\ page[2] = Img("src" :> DataVal(Spacer))
  /\ imgs = page
  /\ fetches = <<>>

\* the cache key through which lines 396-400 find the source of an element
HitKey(c, src) ==
  IF NormalizeImg(src) \in DOMAIN c THEN NormalizeImg(src) ELSE src

\* C14: while a page is being embedded, every cache entry was put by a
\* response of that page's own render or by a fallback request of its pass,
\* and no element is embedded from an entry captured for the page before,
\* also when a response to the page before arrives as the render starts.
C14_NoEarlierPageEntry ==
  /\ [](pc \in {"embed", "embedded"} => stale \cap DOMAIN cache = {})
  /\ [][(/\ Visiting
         /\ SrcOf(imgs[e_idx]) # Absent
         /\ CacheLookup(cache, SrcOf(imgs[e_idx])) # <<>>)
          => HitKey(cache, SrcOf(imgs[e_idx])) \notin stale]_vars

\* the callers that are inside the with statement of a cache method
InCritical == {t \in Callers : cs[t].at \in {"in", "exit"}}

\* C13: at most one caller is inside a critical section of the cache, the
\* caller that is inside holds the lock, and the map is read or changed
\* only by a step of a caller that holds the lock.
C13_CacheUnderLock ==
  /\ [](Cardinality(InCritical) <= 1)
  /\ [](\A t \in InCritical : lock = t)
  /\ [][\A t \in Callers :
          (cs[t].at = "in" /\ cs'[t].at # "in") => lock = t]_vars
  /\ [][cache' # cache =>
          \E t \in Callers : lock = t /\ cs[t].at = "in"
                                      /\ cs'[t].at = "exit"]_vars

\* C13 witness: the callback is inside put while the main flow, which
\* called clear, waits for the lock.
C13_Witness ==
  /\ cs["callback"].at = "in"
  /\ cs["callback"].method = "put"
  /\ lock = "callback"
  /\ cs["main"].at = "with"
  /\ cs["main"].method = "clear"
  /\ cache # EmptyCache

\* the place at which x is first met in seq
FirstAt(seq, x) == Least({k \in 1..Len(seq) : seq[k] = x})

\* list holds the values of seq, each once, in the order they are first met
FirstSeenOrder(list, seq) ==
  /\ NoDup(list)
  /\ Range(list) = Range(seq)
  /\ \A i, j \in 1..Len(list) :
       i < j => FirstAt(seq, list[i]) < FirstAt(seq, list[j])

\* the values at place n of the calls registered for a video, in call order
RECURSIVE RegisteredFor(_, _, _)
RegisteredFor(calls, video_id, n) ==
  IF calls = <<>> THEN <<>>
  ELSE IF Head(calls)[1] = video_id
       THEN <<Head(calls)[n]>> \o RegisteredFor(Tail(calls), video_id, n)
       ELSE RegisteredFor(Tail(calls), video_id, n)

\* C15: after any sequence of add_video calls the index holds one entry for
\* each identifier registered and none for another, and the sections and
\* the source_pages of the entry are the sections and the pages registered
\* for it, each once, in the order of their first registration.
C15_OneEntryListsInOrder ==
  /\ NoDup([i \in 1..Len(index) |-> index[i].id])
  /\ {index[i].id : i \in 1..Len(index)} = {reg[k][1] : k \in 1..Len(reg)}
  /\ \A i \in 1..Len(index) :
       /\ FirstSeenOrder(index[i].sections,
                         RegisteredFor(reg, index[i].id, 2))
       /\ FirstSeenOrder(index[i].source_pages,
                         RegisteredFor(reg, index[i].id, 3))

\* C15 witness: one identifier was registered from the page of the second
\* section and from the two pages of the first, from one of them twice: one
\* entry with the two sections and the three pages.
C15_Witness ==
  /\ Len(index) = 1
  /\ index[1].id = "A"
  /\ index[1].sections = <<SECTIONS[2], SECTIONS[1]>>
  /\ Len(index[1].source_pages) = Cardinality(SourcePages)
  /\ Len(reg) > Len(index[1].source_pages)
  /\ index[1].source_pages[1] = PageOf(SECTIONS[2])
  /\ index[1].status = "pending"

\* the fields of an entry that add_video leaves alone
SameButLists(e, f) ==
  /\ e.id = f.id
  /\ e.url = f.url
  /\ e.title = f.title
  /\ e.status = f.status
  /\ e.local_file = f.local_file

\* C16: add_video leaves status, title, url and local_file of every entry
\* as they are, and adds an entry, at status pending, only for an
\* identifier that had none.
C16_AddVideoKeepsStatus ==
  [][pc' = "added" =>
       /\ Len(index') \in {Len(index), Len(index) + 1}
       /\ \A i \in 1..Len(index) : SameButLists(index[i], index'[i])
       /\ Len(index') = Len(index) + 1 =>
            /\ index'[Len(index')].status = "pending"
            /\ \A i \in 1..Len(index) : index[i].id # index'[Len(index')].id]_vars

\* C16 witness: a downloaded video was registered from another section: the
\* entry took the section and is downloaded as before.
C16_Witness ==
  /\ pc = "added"
  /\ \E i \in 1..Len(loaded) :
       /\ loaded[i].status = "downloaded"
       /\ index[i].sections = Append(loaded[i].sections, SECTIONS[2])
       /\ index[i].status = "downloaded"
       /\ index[i].local_file = loaded[i].local_file

\* C17: clear_failed sets the failed entries to pending and changes nothing
\* else: no other status, no other field, no entry added or removed.
C17_ClearFailedOnlyFailed ==
  [][pc' = "cleared" =>
       /\ Len(index') = Len(index)
       /\ \A i \in 1..Len(index) :
            /\ index'[i].status =
                 IF index[i].status = "failed" THEN "pending"
                 ELSE index[i].status
            /\ index'[i].id = index[i].id
            /\ index'[i].url = index[i].url
            /\ index'[i].title = index[i].title
            /\ index'[i].sections = index[i].sections
            /\ index'[i].source_pages = index[i].source_pages
            /\ index'[i].local_file = index[i].local_file]_vars

\* C17 witness: from A unavailable, B failed, C downloaded, the reset made B
\* pending and left A and C.
C17_Witness ==
  /\ pc = "cleared"
  /\ loaded = <<EntryAt("A", "unavailable"), EntryAt("B", "failed"),
                EntryAt("C", "downloaded")>>
  /\ index = <<EntryAt("A", "unavailable"), EntryAt("B", "pending"),
               EntryAt("C", "downloaded")>>

\* the status the index holds for a video, "absent" when it holds no entry
EntryStatus(ix, video_id) ==
  IF \E i \in 1..Len(ix) : ix[i].id = video_id
  THEN ix[CHOOSE i \in 1..Len(ix) : ix[i].id = video_id].status
  ELSE "absent"

\* C18: over scans, download passes and resets of several runs, a video
\* that is downloaded or unavailable, in the index or in the index file,
\* keeps that status, and download is never called for it.
C18_DoneIsTerminal ==
  /\ [][\A vid \in VideoIds :
          /\ EntryStatus(index, vid) \in {"downloaded", "unavailable"}
               => EntryStatus(index', vid) = EntryStatus(index, vid)
          /\ EntryStatus(index_file, vid) \in {"downloaded", "unavailable"}
               => EntryStatus(index_file', vid)
                    = EntryStatus(index_file, vid)]_vars
  /\ [](last_call.was \notin {"downloaded", "unavailable"})

\* C18 witness: a later run went through the first section, which holds a
\* downloaded video and an unavailable one, both met in the two sections,
\* and called download for neither.
C18_Witness ==
  /\ runs > 1
  /\ pc = "yt_download"
  /\ y_sec = 1
  /\ Len(index) = Cardinality(VideoIds)
  /\ v_idx = Len(index) + 1
  /\ \A i \in 1..Len(index) : Len(index[i].sections) = Len(SECTIONS)
  /\ EntryStatus(index, "A") = "downloaded"
  /\ EntryStatus(index, "B") = "unavailable"
  /\ last_call = NoCall

\* C19: every change of the status of an entry is pending to downloaded,
\* pending to unavailable, pending to failed or failed to pending, the last
\* one only in the reset that --retry-failed asks for.
C19_OnlyListedTransitions ==
  [][\A vid \in VideoIds :
       LET was == EntryStatus(index, vid)
           now == EntryStatus(index', vid)
       IN (was # now /\ was # "absent") =>
            /\ <<was, now>> \in {<<"pending", "downloaded">>,
                                 <<"pending", "unavailable">>,
                                 <<"pending", "failed">>,
                                 <<"failed", "pending">>}
            /\ <<was, now>> = <<"failed", "pending">> =>
                 (pc = "yt_idle" /\ opts'.retry_failed)]_vars

\* C20: download is not called for a video whose status is failed, neither
\* in a run started without --retry-failed nor later in the run in which
\* it failed.
C20_FailedNotRetried == last_call.was # "failed"

\* C21: an output file that exists with more than 200 bytes is not written
\* again, also when the ledger does not hold its thread as completed, and
\* the thread save_thread was called on is recorded as completed.
C21_ExistingOutputKept ==
  /\ [][\A fpath \in DOMAIN files :
          ExistsBig(files, fpath) => ExistsBig(files', fpath)]_vars
  /\ [][(pc = "thread_done" /\ pc' = "threads")
          => thread_url \in Range(state'[sec].threads_done)]_vars

\* C22: the failure of one item does not end the run: a run that meets
\* neither an interrupt nor a fatal failure leaves its loops only after the
\* last thread of the last section.
C22_ItemFailureNeverAborts ==
  (pc = "finally" /\ how \notin {"interrupt", "error"})
    => (sec = NumSections /\ t_idx > Len(threads))

\* C23: discovery ends when a listing render fails, and when the page just
\* scanned has no next-link (so when it gave no new thread and has no
\* next-link); when the page has a next-link, discovery goes on to it,
\* whether or not the page gave a new thread.
C23_StopOrContinue ==
  [][/\ (pc = "discover" /\ pc' # "scan")
          => (pc' = "discovered" /\ d_threads' = d_threads)
     /\ (pc = "decide" /\ Len(d_threads) = Len(d_before) /\ Forward = {})
          => pc' = "discovered"
     /\ (pc = "decide" /\ Forward = {}) => pc' = "discovered"
     /\ (pc = "decide" /\ Forward # {})
          => (pc' = "discover" /\ page_url' = d_html[Least(Forward)])
     /\ pc = "discovered" => rendered' = rendered]_vars

\* C23 witness: the first page gave no thread and had a next-link, which
\* was followed; the second gave no thread and had none: discovery ended
\* after two renders.
C23_Witness ==
  /\ pc = "discovered"
  /\ rendered = <<0, 30>>
  /\ d_threads = <<>>

\* the pagination offsets above the start offset that the listing pages of
\* the section link to
OffsetsAbove ==
  {l.st[1] : l \in {k \in NavLinks(sec) :
                      k.f = sec /\ k.st # <<>> /\ k.st[1] > 0}}

\* C24: discovery ends, whatever the listing pages link to, and renders at
\* most one page more than there are distinct pagination offsets above the
\* start offset.
C24_DiscoveryTerminates ==
  /\ [](Len(rendered) <= Cardinality(OffsetsAbove) + 1)
  /\ <>(pc = "discovered")

\* C24 witness: the page at the highest offset links back to a lower offset
\* and to itself; no page is rendered after it.
C24_Witness ==
  /\ pc = "discovered"
  /\ Len(rendered) = Cardinality(OffsetsAbove) + 1
  /\ page_url = NextLink(sec, 60)

\* ---------------------------------------------------------------- C25
\* the threads of the first k listing pages of the section, from `url` on,
\* in the order the pages list them
RECURSIVE ListedBefore(_, _, _)
ListedBefore(collected, url, k) ==
  IF k = 0 \/ url = NoUrl THEN collected
  ELSE LET doc == ThreadDoc(forum, url)
       IN ListedBefore(CollectThreads(collected, doc, 1),
                       FindNext(doc, get_forum_id(SectionUrl(sec)),
                                CurrentSt(url), 1),
                       k - 1)

\* C25: when the render of the k-th listing page of a section fails,
\* discovery ends with that one render, the discovered list that the run
\* stores for the section is the threads of the listing pages 1..k-1 in the
\* order they were met, and no listing page of the section is rendered
\* again in the same run.
C25_FailedListingTruncates ==
  [][/\ (pc = "discover" /\ pc' = "discovered")
          => /\ d_threads' = ListedBefore(<<>>, SectionUrl(sec), Len(rendered))
             /\ Len(rendered') = Len(rendered) + 1
     /\ (pc = "discovered" /\ pc' # "finally")
          => /\ state'[sec].threads_found = Flatten(d_threads)
             /\ pc' # "discover"
     /\ (pc # "discover" /\ pc # "decide" /\ pc' = "discover")
          => sec' \notin listed]_vars

\* the second listing page of a section failed to render after the first
\* one gave a thread, and the list stored is that thread
C25_Witness ==
  /\ pc = "threads"
  /\ sec \in listed
  /\ forum = Fixed(PagedForum)
  /\ threads = <<<<ThreadLink(sec), TitleOf(sec)>>>>
  /\ state[sec].threads_found = Flatten(threads)
  /\ runs = 1

\* ---------------------------------------------------------------- C26
\* C26: a link that carries a thread-id parameter and also matches a
\* deny-list signature is not taken as a thread: no such link is in the
\* discovered list, and a thread is in the list only if a link without
\* deny-list signature leads to it.
C26_DeniedLinkNeverDiscovered ==
  \A i \in 1..Len(d_threads) :
    /\ ~should_skip(d_threads[i][1])
    /\ \E l \in NavLinks(sec) :
         /\ ~should_skip(l)
         /\ get_thread_id(l) = get_thread_id(d_threads[i][1])

\* a listing page with the denied link to thread 2 before the link to
\* thread 1 was scanned, and thread 1 alone was collected
C26_Witness ==
  /\ pc = "decide"
  /\ Len(d_html) >= 2
  /\ d_html[1] = DeniedLink(2)
  /\ d_html[2] = ThreadLink(1)
  /\ d_threads = <<<<ThreadLink(1), TitleOf(1)>>>>

\* ---------------------------------------------------------------- C27
\* the pagination offsets other than 0 that the first page links for the
\* thread being saved
OtherOffsets ==
  {l.st[1] : l \in {k \in Range(ThreadDoc(forum, thread_url)) :
                      /\ k.t = get_thread_id(thread_url)
                      /\ k.st # <<>>
                      /\ k.st[1] # 0}}

PageFiles == {p \in DOMAIN files : p.pg # 0}

\* C27: a thread whose first rendered page links no other offset of the
\* thread than 0 is saved as exactly one flat file; any other thread is
\* saved as one file per discovered offset in the thread's directory and
\* has no flat file, and its offset 0 is written as page 1 from the first
\* page already rendered: no render, hence no render failure, comes before
\* the write of that page.
C27_FlatOrOneFilePerOffset ==
  /\ []((pc = "thread_done" /\ thread_pages # <<>>) =>
         LET flat == FlatPath(sec, get_thread_id(thread_url))
         IN IF OtherOffsets = {}
            THEN /\ DOMAIN files = {flat}
                 /\ files[flat] = "full"
            ELSE /\ flat \notin DOMAIN files
                 /\ PagePath(sec, get_thread_id(thread_url), 1) \in PageFiles
                 /\ saved = Len(thread_pages)
                      => Cardinality(PageFiles) = Len(thread_pages))
  /\ [][(/\ pc = "save_page"
          /\ pg_idx <= Len(thread_pages)
          /\ st_val = 0
          /\ ~ExistsBig(files, page_fpath))
           => (pc' = "page_open" /\ page_fpath \in written')]_vars

\* ---------------------------------------------------------------- C28
\* C28: when the embedding pass visits an img element whose source the
\* cache holds neither as resolved nor as written, and the fallback request
\* for it fails (it raises, or is answered with an error status), the
\* element keeps its src and its lazy-load attributes as they were and the
\* cache gets no entry.
C28_NoBytesLeavesElement ==
  [][(/\ pc = "embed"
      /\ e_idx <= Len(imgs)
      /\ e_idx' = e_idx + 1
      /\ SrcOf(imgs[e_idx]).kind = "http"
      /\ get_data_uri(cache, NormalizeImg(SrcOf(imgs[e_idx]))) = <<>>
      /\ get_data_uri(cache, SrcOf(imgs[e_idx])) = <<>>
      /\ Len(fetches') = Len(fetches) + 1
      /\ ~fetches'[Len(fetches')].ok)
       => /\ \A a \in {"src"} \cup LazyAttrs :
               imgs'[e_idx][a] = imgs[e_idx][a]
          /\ imgs' = imgs
          /\ DOMAIN cache' = DOMAIN cache
          /\ cache' = cache]_vars

\* a pass over a page of one lazy image with a placeholder src is over; the
\* request for the image failed, the element is as it was loaded, with its
\* data-src, and the cache is empty
C28_Witness ==
  /\ pc = "embedded"
  /\ page = <<Img("src" :> OtherVal @@ "data-src" :> HttpVal(2, FALSE))>>
  /\ imgs = page
  /\ imgs[1]["data-src"] = HttpVal(2, FALSE)
  /\ cache = EmptyCache
  /\ Len(fetches) = 1
  /\ fetches[1].url = HttpVal(2, FALSE)
  /\ ~fetches[1].ok

\* ---------------------------------------------------------------- C29
\* a call of fetch_page: a listing page, the first page of a thread, or a
\* later page of a thread is rendered, or fails to render
FetchPage ==
  \/ DiscoverFetch
  \/ DiscoverFetchFail
  \/ SaveFetch
  \/ SaveFetchFail
  \/ PageFetchFail
  \/ PageOpen /\ st_val # 0

\* C29: the politeness delay follows every full-page fetch: whenever
\* fetch_page renders a page, the configured delay was slept since the
\* render before it in the run, whether that render succeeded or failed.
C29_DelayAfterEveryFetch == [][FetchPage => delayed]_vars

\* ---------------------------------------------------------------- C30
\* the cleanup step of a run that was interrupted inside save_thread on a
\* multi-page thread
InterruptedInPages ==
  /\ pc = "finally"
  /\ how = "interrupt"
  /\ Len(thread_pages) > 1

PathOfPage(i) ==
  PagePath(sec, get_thread_id(thread_url), PgNum(thread_pages[i][1]))

\* no other offset of the thread has the page number of the i-th
OwnFile(i) ==
  \A j \in 1..Len(thread_pages) : PathOfPage(j) = PathOfPage(i) => j = i

Succeeded == {k \in 1..Len(fetches) : fetches[k].url \in DOMAIN cache}

\* C31: within one embedding pass, after a fallback request for a URL gave
\* an image, no fallback request is made again for a URL that resolves to
\* the same one, by an img element or by an inline-style reference: the
\* cache serves it.
C31_FetchedAtMostOnce ==
  [][Len(fetches') = Len(fetches) + 1 =>
       \A k \in Succeeded :
         NormalizeImg(fetches[k].url)
           # NormalizeImg(fetches'[Len(fetches')].url)]_vars

\* ---------------------------------------------------------------- C32
\* the page URLs discover_thread_pages gives for a thread of the forum
PageUrlsOf(url) ==
  {pg[2] : pg \in Range(discover_thread_pages(url, ThreadDoc(forum, url)))}

\* C32: a thread URL is in the threads_done of a section only if the first
\* page of the thread and every page discovered for it were saved, that is,
\* each of those page URLs is in the section's thread_pages_done; a thread
\* whose render failed, or a page of which failed to render, is not
\* recorded as completed.
C32_DoneOnlyIfAllPagesSaved ==
  \A s \in Sections :
    \A u \in DoneOf(state, s) :
      /\ u \in PagesOf(state, s)
      /\ PageUrlsOf(u) \subseteq PagesOf(state, s)

\* ---------------------------------------------------------------- C33
\* C33: in the ledger in memory and in the persisted one, in every state
\* of a run and of the run that resumes it after an interrupt, no URL is
\* twice in the threads_done or in the thread_pages_done of a section.
C33_DoneListsAreSets ==
  \A s \in Sections :
    /\ NoDup(View(state, s).threads_done)
    /\ NoDup(View(state, s).thread_pages_done)
    /\ NoDup(View(disk, s).threads_done)
    /\ NoDup(View(disk, s).thread_pages_done)

\* ---------------------------------------------------------------- C34
\* C34: within one multi-page thread no two discovered offsets have the
\* same page file, and in a call of save_thread that found no file of the
\* thread no offset is counted as saved on the strength of a file that was
\* written for another offset.
C34_OffsetsHaveOwnFiles ==
  /\ [](Len(thread_pages) > 1 =>
          \A i \in 1..Len(thread_pages) : OwnFile(i))
  /\ [][~(/\ pc = "save_page"
           /\ pc' = "save_page"
           /\ saved' = saved + 1
           /\ files' = files)]_vars

\* ---------------------------------------------------------------- C35
\* C35: every payload the image cache holds is longer than 100 bytes,
\* whether a response seen by the browser or a fallback request put it.
C35_CachedPayloadsOver100 ==
  \A k \in DOMAIN cache : Len(cache[k][2]) > 100

\* ---------------------------------------------------------------- C36
\* where run() is while discover_threads has not returned its result to the
\* assignment of line 710
Discovering == pc \in {"discover", "scan", "decide", "discovered"}

\* C36: the threads_found of a section becomes non-empty only when the
\* result of a call of discover_threads that returned is assigned to it,
\* whole; while the call runs, and after it was interrupted or returned no
\* thread, threads_found is empty in memory and in the persisted ledger,
\* and a run that comes to a section whose threads_found is empty performs
\* discovery for it.
C36_FoundOnlyFromReturnedDiscovery ==
  /\ [](Discovering =>
          /\ View(state, sec).threads_found = <<>>
          /\ View(disk, sec).threads_found = <<>>)
  /\ [][\A s \in Sections :
          (/\ pc # "idle"
           /\ View(state, s).threads_found = <<>>
           /\ View(state', s).threads_found # <<>>)
            => /\ pc = "discovered"
               /\ s = sec
               /\ d_threads # <<>>
               /\ state'[s].threads_found = Flatten(d_threads)]_vars
  /\ [][(Discovering /\ pc' \in {"finally", "section"})
          => /\ View(state', sec).threads_found = <<>>
             /\ pc' = "finally" => View(disk', sec).threads_found = <<>>]_vars
  /\ [][(/\ pc = "idle"
          /\ pc' # "idle")
          => \A s \in Sections :
               View(disk, s).threads_found = <<>>
                 => View(state', s).threads_found = <<>>]_vars
  /\ [][(/\ pc = "section"
          /\ View(state, sec).threads_found = <<>>
          /\ pc' # "finally")
          => (pc' = "discover" /\ page_url' = SectionUrl(sec))]_vars

\* a run that follows a run interrupted during the discovery of the first
\* section, which left the section's record with an empty threads_found,
\* performs that discovery again
C36_Witness ==
  /\ runs = 2
  /\ prevHow = "interrupt"
  /\ 1 \in DOMAIN start
  /\ start[1].threads_found = <<>>
  /\ sec = 1
  /\ pc = "scan"
  /\ d_html # <<>>

\* ---------------------------------------------------------------- C37
\* C37: in the index and in the index file, an entry whose status is
\* downloaded has a local_file, and an entry whose status is pending,
\* failed or unavailable (none of which was ever downloaded) has none.
C37_LocalFileIffDownloaded ==
  \A ix \in {index, index_file} :
    \A i \in 1..Len(ix) :
      /\ ix[i].status = "downloaded" => ix[i].local_file # NoFile
      /\ ix[i].status \in {"pending", "failed", "unavailable"}
           => ix[i].local_file = NoFile

====
